---- MODULE Spec2Model ----
(***************************************************************************)
(* Live transcription pipeline: the transcription session of               *)
(* code/transcribe.py (OptimizedTranscriptionProcessor), its text          *)
(* similarity comparator (code/text_similarity.py) and the per-connection  *)
(* receive loop and callbacks of code/server.py.                           *)
(*                                                                         *)
(* Texts are sequences of Unicode code points, so that splitting,          *)
(* stripping, script detection and similarity are computed as the code     *)
(* computes them.  Times are integer milliseconds.  Confidences are        *)
(* fixed-point numbers with denominator CONF_ONE.                          *)
(***************************************************************************)
EXTENDS Integers, Sequences, FiniteSets, TLC

(***************************************************************************)
(* Bounds of the model                                                     *)
(***************************************************************************)
\* capacity of the audio queue (server.py reads it from the environment)
MAX_AUDIO_QUEUE_SIZE == 2
\* history capacity (1000, or 200 under the constrained profile), scaled
_TRANSCRIPTION_CACHE_SIZE == 2
\* a history capacity at which half of the entries is more than one entry
EvictionCapacity == 4
\* measurements on_partial keeps in processing_times (100), scaled
PROCESSING_TIMES_KEPT == 1
\* longest processing_times the model follows
MaxProcessingTimes == 2
\* auto-save interval (100, or 50 under the constrained profile), scaled
_AUTO_SAVE_INTERVAL == 2
\* force_finalize appends without trimming: the model stops it at this length
MaxHistory == 3
\* the clock starts at TickMs and advances in steps of TickMs, MaxTicks steps
\* in all
TickMs == 200
MaxTicks == 2
MaxTime == MaxTicks * TickMs
\* outbound messages waiting for the send task
MaxMessages == 2
\* audio processors created on one connection (change_language creates one)
MaxProcessors == 3
\* entries of the server's TranscriptionHistory
MaxAppHistory == 2
\* longest history handed to an export
MaxExportHistory == 2
\* length from which str.split is computed piece by piece
SplitPiece == 30

(***************************************************************************)
(* Program constants                                                       *)
(***************************************************************************)
\* recorder_config["post_speech_silence_duration"] in continuous mode, ms
POST_SPEECH_SILENCE_DURATION == 500
\* pipeline_latency default of the constructor, ms
PIPELINE_LATENCY == 300
\* _PIPELINE_RESERVE_TIME_MS (0.015 s), ms
_PIPELINE_RESERVE_TIME_MS == 15
_LANGUAGE_DETECTION_MIN_WORDS == 3
\* _SIMILARITY_THRESHOLD 0.85, in percent
_SIMILARITY_THRESHOLD == 85
\* TextSimilarity(focus='end', n_words=7)
N_WORDS == 7
\* 1.0 as a fixed-point confidence: 20^6, every factor is a multiple of 1/20
CONF_ONE == 64000000

(***************************************************************************)
(* Text: sequences of code points                                          *)
(***************************************************************************)
\* Python None where a text is expected (no code point is negative)
None == <<-1>>

\* "if not text": None and the empty string are falsy
Truthy(text) == text # None /\ text # <<>>

\* str.isspace for the characters the inputs use
IsSpace(c) == c \in {9, 10, 11, 12, 13, 32}

IsLatin(c) == (c >= 65 /\ c <= 90) \/ (c >= 97 /\ c <= 122)
IsDevanagari(c) == c >= 2304 /\ c <= 2431
\* Bengali, Gurmukhi, Gujarati
IsOtherIndic(c) == c >= 2432 /\ c <= 2815

\* str.lower on one code point (ASCII letters; the Indic scripts have no case)
LowerChar(c) == IF c >= 65 /\ c <= 90 THEN c + 32 ELSE c
Lower(text) == [i \in 1..Len(text) |-> LowerChar(text[i])]

RECURSIVE LStrip(_)
LStrip(text) ==
    IF text # <<>> /\ IsSpace(Head(text)) THEN LStrip(Tail(text)) ELSE text

RECURSIVE RStrip(_)
RStrip(text) ==
    IF text # <<>> /\ IsSpace(text[Len(text)])
    THEN RStrip(SubSeq(text, 1, Len(text) - 1))
    ELSE text

\* str.strip()
Strip(text) == LStrip(RStrip(text))

\* str.split(): the maximal runs of non-whitespace characters, collected
\* character by character
RECURSIVE SplitFrom(_, _, _)
SplitFrom(text, cur, acc) ==
    IF text = <<>>
    THEN IF cur = <<>> THEN acc ELSE Append(acc, cur)
    ELSE IF IsSpace(Head(text))
         THEN SplitFrom(Tail(text), <<>>, IF cur = <<>> THEN acc ELSE Append(acc, cur))
         ELSE SplitFrom(Tail(text), Append(cur, Head(text)), acc)

\* a text with whitespace at position SplitPiece or later is cut there, and
\* its words are those of the two pieces
RECURSIVE Split(_)
Split(text) ==
    IF \E p \in SplitPiece..Len(text) : IsSpace(text[p])
    THEN LET cut == CHOOSE p \in SplitPiece..Len(text) : IsSpace(text[p])
         IN  SplitFrom(SubSeq(text, 1, cut - 1), <<>>, <<>>)
                 \o Split(SubSeq(text, cut + 1, Len(text)))
    ELSE SplitFrom(text, <<>>, <<>>)

\* ' '.join(words)
RECURSIVE Join(_)
Join(words) ==
    IF words = <<>> THEN <<>>
    ELSE IF Len(words) = 1 THEN words[1]
    ELSE words[1] \o <<32>> \o Join(Tail(words))

\* words[:n]
LastN_from_front(s, n) == IF Len(s) <= n THEN s ELSE SubSeq(s, 1, n)

\* words[-n:]
LastN(s, n) == IF Len(s) <= n THEN s ELSE SubSeq(s, Len(s) - n + 1, Len(s))

Chars(text) == {text[i] : i \in 1..Len(text)}

(***************************************************************************)
(* text_similarity.py: TextSimilarity(focus='end', n_words=N_WORDS)        *)
(***************************************************************************)
\* re.sub(r'\s+', ' ', text): every run of whitespace becomes one space
RECURSIVE CollapseSpaces(_)
CollapseSpaces(text) ==
    IF text = <<>> THEN <<>>
    ELSE IF IsSpace(Head(text))
         THEN <<32>> \o CollapseSpaces(LStrip(text))
         ELSE <<Head(text)>> \o CollapseSpaces(Tail(text))

TextSimilarity_normalize_text(text) ==
    IF ~Truthy(text) THEN <<>> ELSE CollapseSpaces(Strip(Lower(text)))

\* focus = 'end': the last N_WORDS words joined by single spaces
_get_focused_text(text) ==
    LET words == Split(TextSimilarity_normalize_text(text))
    IN  IF words # <<>> THEN Join(LastN(words, N_WORDS)) ELSE <<>>

\* length of the common run of a from i and b from j
RECURSIVE CommonRun(_, _, _, _)
CommonRun(a, i, b, j) ==
    IF i > Len(a) \/ j > Len(b) \/ a[i] # b[j] THEN 0
    ELSE 1 + CommonRun(a, i + 1, b, j + 1)

\* difflib.SequenceMatcher.find_longest_match without junk: the longest
\* matching block, the one starting earliest in a and then earliest in b
find_longest_match(a, b) ==
    LET runs == {CommonRun(a, i, b, j) : i \in 1..Len(a), j \in 1..Len(b)}
        k    == CHOOSE m \in runs : \A n \in runs : n <= m
        i    == CHOOSE x \in 1..Len(a) :
                    /\ \E y \in 1..Len(b) : CommonRun(a, x, b, y) = k
                    /\ \A x2 \in 1..(x - 1) :
                           \A y \in 1..Len(b) : CommonRun(a, x2, b, y) # k
        j    == CHOOSE y \in 1..Len(b) :
                    /\ CommonRun(a, i, b, y) = k
                    /\ \A y2 \in 1..(y - 1) : CommonRun(a, i, b, y2) # k
    IN  [i |-> i, j |-> j, size |-> k]

\* sum of the sizes of SequenceMatcher.get_matching_blocks()
RECURSIVE MatchingChars(_, _)
MatchingChars(a, b) ==
    IF a = <<>> \/ b = <<>> THEN 0
    ELSE LET blk == find_longest_match(a, b)
         IN  IF blk.size = 0 THEN 0
             ELSE blk.size
                  + MatchingChars(SubSeq(a, 1, blk.i - 1), SubSeq(b, 1, blk.j - 1))
                  + MatchingChars(SubSeq(a, blk.i + blk.size, Len(a)),
                                  SubSeq(b, blk.j + blk.size, Len(b)))

\* a ratio M/T, without the factor 2
SequenceMatcher_ratio_unscaled(a, b) ==
    IF Len(a) + Len(b) = 0 THEN <<1, 1>>
    ELSE <<MatchingChars(a, b), Len(a) + Len(b)>>

\* SequenceMatcher.ratio() = 2*M/T as the fraction <<2*M, T>> (1.0 when T = 0)
SequenceMatcher_ratio(a, b) ==
    IF Len(a) + Len(b) = 0 THEN <<1, 1>>
    ELSE <<2 * MatchingChars(a, b), Len(a) + Len(b)>>

\* a fraction <<num, den>>
calculate_similarity(text1, text2) ==
    IF ~Truthy(text1) /\ ~Truthy(text2) THEN <<1, 1>>
    ELSE IF ~Truthy(text1) \/ ~Truthy(text2) THEN <<0, 1>>
    ELSE LET focused_text1 == _get_focused_text(text1)
             focused_text2 == _get_focused_text(text2)
         IN  IF focused_text1 = <<>> /\ focused_text2 = <<>> THEN <<1, 1>>
             ELSE IF focused_text1 = <<>> \/ focused_text2 = <<>> THEN <<0, 1>>
             ELSE SequenceMatcher_ratio(focused_text1, focused_text2)

\* threshold in percent
is_similar(text1, text2, threshold) ==
    LET similarity == calculate_similarity(text1, text2)
    IN  similarity[1] * 100 >= threshold * similarity[2]

\* turndetect.strip_ending_punctuation: trailing whitespace, then the
\* sentence end marks '.', '!', '?' and the ideographic full stop
RECURSIVE RStripMarks(_)
RStripMarks(text) ==
    IF text # <<>> /\ text[Len(text)] \in {46, 33, 63, 12290}
    THEN RStripMarks(SubSeq(text, 1, Len(text) - 1))
    ELSE text

strip_ending_punctuation(text) == RStripMarks(RStrip(text))

(***************************************************************************)
(* transcribe.py: pure helpers of OptimizedTranscriptionProcessor          *)
(***************************************************************************)
\* the keys of LANGUAGE_MODELS
LANGUAGE_MODELS == {"en", "hi", "hi-en"}

\* LANGUAGE_MODELS[lang]["whisper_code"]; "" stands for None (auto-detect)
whisper_code(lang) == IF lang = "hi-en" THEN "" ELSE lang

_has_mixed_scripts(text) ==
    LET has_latin       == \E c \in Chars(text) : IsLatin(c)
        has_devanagari  == \E c \in Chars(text) : IsDevanagari(c)
        has_other_indic == \E c \in Chars(text) : IsOtherIndic(c)
    IN  has_latin /\ (has_devanagari \/ has_other_indic)

\* langdetect.detect, the external detector: it decides by the script of the
\* letters and raises ("error") on a text without letters
langdetect_detect(text) ==
    LET latin == Cardinality({i \in 1..Len(text) : IsLatin(text[i])})
        indic == Cardinality({i \in 1..Len(text) :
                                 IsDevanagari(text[i]) \/ IsOtherIndic(text[i])})
    IN  IF latin + indic = 0 THEN "error"
        ELSE IF indic >= latin THEN "hi" ELSE "en"

\* detect_language with the detector installed; "" stands for None
detect_language(text) ==
    IF ~Truthy(text) \/ Len(Split(text)) < _LANGUAGE_DETECTION_MIN_WORDS THEN ""
    ELSE LET detected == langdetect_detect(text)
         IN  IF detected = "error" THEN ""
             ELSE IF _has_mixed_scripts(text) THEN "hi-en"
             ELSE IF detected \in {"ur", "pa", "bn"} THEN "hi"
             ELSE detected

\* one confidence factor k/20 applied to a fixed-point confidence
Times(confidence, k) == (confidence * k) \div 20

\* audio buffer of the recorder, by the statistics estimate_confidence reads:
\* n samples, mean absolute amplitude in 1/1000, estimated SNR in dB
NoAudio == [n |-> 0, volume |-> 0, snr |-> 0]

MaxCount(words) ==
    LET count(w) == Cardinality({i \in 1..Len(words) : words[i] = w})
        counts   == {count(words[i]) : i \in 1..Len(words)}
    IN  IF words = <<>> THEN 1 ELSE CHOOSE m \in counts : \A n \in counts : n <= m

\* estimate_confidence without its first test, of a missing or blank text
estimate_confidence_unguarded(text, audio_data, language) ==
    IF FALSE THEN 0
    ELSE LET words == Split(Strip(text))
             c1 == IF Len(words) < 2 THEN Times(CONF_ONE, 14)
                   ELSE IF Len(words) > 50 THEN Times(CONF_ONE, 18)
                   ELSE CONF_ONE
             unique_chars == Cardinality(Chars(Lower(text)))
             c2 == IF unique_chars < 5 /\ Len(text) > 10 THEN Times(c1, 12) ELSE c1
             c3 == IF _has_mixed_scripts(text)
                   THEN IF language = "hi-en" THEN Times(c2, 19) ELSE Times(c2, 15)
                   ELSE c2
             c4 == IF 2 * MaxCount(words) > Len(words) THEN Times(c3, 12) ELSE c3
             c5 == IF audio_data.n > 0
                   THEN IF audio_data.volume < 10 THEN Times(c4, 16)
                        ELSE IF audio_data.volume > 500 THEN Times(c4, 18)
                        ELSE c4
                   ELSE c4
             c6 == IF audio_data.n > 1600 /\ audio_data.snr < 10
                   THEN Times(c5, 17) ELSE c5
         IN  IF c6 > CONF_ONE THEN CONF_ONE ELSE IF c6 < 0 THEN 0 ELSE c6

\* estimate_confidence, with current_language as a parameter
estimate_confidence(text, audio_data, language) ==
    IF ~Truthy(text) \/ Strip(text) = <<>> THEN 0
    ELSE LET words == Split(Strip(text))
             c1 == IF Len(words) < 2 THEN Times(CONF_ONE, 14)
                   ELSE IF Len(words) > 50 THEN Times(CONF_ONE, 18)
                   ELSE CONF_ONE
             unique_chars == Cardinality(Chars(Lower(text)))
             c2 == IF unique_chars < 5 /\ Len(text) > 10 THEN Times(c1, 12) ELSE c1
             c3 == IF _has_mixed_scripts(text)
                   THEN IF language = "hi-en" THEN Times(c2, 19) ELSE Times(c2, 15)
                   ELSE c2
             c4 == IF 2 * MaxCount(words) > Len(words) THEN Times(c3, 12) ELSE c3
             c5 == IF audio_data.n > 0
                   THEN IF audio_data.volume < 10 THEN Times(c4, 16)
                        ELSE IF audio_data.volume > 500 THEN Times(c4, 18)
                        ELSE c4
                   ELSE c4
             c6 == IF audio_data.n > 1600 /\ audio_data.snr < 10
                   THEN Times(c5, 17) ELSE c5
         IN  IF c6 > CONF_ONE THEN CONF_ONE ELSE IF c6 < 0 THEN 0 ELSE c6

\* TranscriptionResult(...): word_count or len(text.split()) if text else 0.
\* timestamp, duration and datetime are clock readings no operation reads back.
TranscriptionResult(text, confidence, language, is_final, word_count, has_mixed) ==
    [text |-> text, confidence |-> confidence, language |-> language,
     is_final |-> is_final,
     word_count |-> IF Truthy(text)
                    THEN IF word_count # 0 THEN word_count ELSE Len(Split(text))
                    ELSE 0,
     has_mixed_language |-> has_mixed]

(***************************************************************************)
(* Inputs                                                                  *)
(***************************************************************************)
T_empty == <<>>
\* " "
T_space == <<32>>
\* "hel", "hello", "hello wor", "hello wor!"
T_hel == <<104, 101, 108>>
T_hello == <<104, 101, 108, 108, 111>>
T_hello_wor == <<104, 101, 108, 108, 111, 32, 119, 111, 114>>
T_hello_wor_bang == <<104, 101, 108, 108, 111, 32, 119, 111, 114, 33>>
\* "it is ok": three English words
T_en3 == <<105, 116, 32, 105, 115, 32, 111, 107>>
\* three Devanagari words (ka, kha, ga)
T_hi3 == <<2325, 32, 2326, 32, 2327>>
\* "a <ka> b": three words in mixed scripts
T_mix3 == <<97, 32, 2325, 32, 98>>

\* texts of recognizer partial events of one utterance (None: no text); the
\* last one differs from the one before it by its end mark only
PartialTexts == {None, T_hel, T_hello_wor, T_hello_wor_bang}

\* "!": a partial text that is an end mark alone
T_mark == <<33>>

\* partial events of the utterance "hello wor", with the repeat that differs
\* by its end mark only
UtteranceTexts == {T_hello, T_hello_wor, T_hello_wor_bang}

\* "a <ka>": two words in mixed scripts
T_mix2 == <<97, 32, 2325>>

\* partial texts in mixed scripts, of two and of three words, and one in English
MixedTexts == {T_mix2, T_mix3, T_en3}

\* texts of recognizer partial events in the two languages and in both
LanguageTexts == {T_en3, T_hi3, T_mix3}

\* texts of recognizer final events
FinalTexts == {None, T_empty, T_space, T_hello_wor}

\* arguments of switch_language and of the constructor's source_language
LanguageArgs == {"en", "hi", "hi-en", "fr", ""}
SourceLanguages == {"en", "hi", "hi-en", "fr"}

\* a quiet buffer of 0.2 s with a low signal-to-noise ratio
QuietAudio == [n |-> 3200, volume |-> 5, snr |-> 8]
AudioInputs == {NoAudio}

\* chunks of PCM bytes handed to feed_audio
AudioChunks == {<<10, 20>>, <<30>>}

\* texts for is_similar: "hello world", "hello world!!", "Hello  World" (two
\* spaces), eight words (one more than N_WORDS), and others
T_hello_world == <<104, 101, 108, 108, 111, 32, 119, 111, 114, 108, 100>>
T_hello_world_bangs == T_hello_world \o <<33, 33>>
T_Hello__World == <<72, 101, 108, 108, 111, 32, 32, 87, 111, 114, 108, 100>>
T_eight == <<97, 32, 98, 32, 99, 32, 100, 32, 101, 32, 102, 32, 103, 32, 104>>
SimilarityTexts ==
    {T_space, T_hello, T_hello_world, T_hello_world_bangs, T_Hello__World,
     T_eight, T_hi3, T_mix3}
\* thresholds, in percent
SimilarityThresholds == {0, 50, 80, 100}

\* a loud buffer, above the clipping level
LoudAudio == [n |-> 3200, volume |-> 600, snr |-> 30]
ConfidenceAudio == {NoAudio, QuietAudio, LoudAudio}

RECURSIVE RepeatWord(_, _)
\* "word " * n
RepeatWord(word, n) == IF n = 0 THEN <<>> ELSE word \o <<32>> \o RepeatWord(word, n - 1)

\* texts for estimate_confidence: missing, empty, blank, one word, one word
\* many times over (more than 50 words), few distinct characters in more than
\* ten, a repeated word among others, both scripts
T_a51 == RepeatWord(<<97>>, 51)
T_aaaa == <<97, 97, 97, 97, 97, 97, 97, 97, 97, 97, 97, 97>>
T_repeat == <<110, 111, 32, 110, 111, 32, 121, 101, 115>>
ConfidenceTexts ==
    {None, T_empty, T_space, T_hello, T_hello_wor, T_a51, T_aaaa, T_repeat,
     T_mix2, T_mix3, T_hi3}

Times_ms == {t \in 0..MaxTime : t % TickMs = 0 /\ t > 0}

(***************************************************************************)
(* State                                                                   *)
(***************************************************************************)
VARIABLES
    \* OptimizedTranscriptionProcessor
    current_language, auto_language_switching, export_path,
    recorder, recorder_language, post_speech_silence_duration,
    realtime_text, current_confidence, silence_time, silence_active,
    _last_partial_text, transcription_history,
    auto_save_counter, shutdown_performed,
    \* processing_times: the measurements of the handlers' processing time
    processing_times,
    \* the monitor thread: where it stands in _finalize_current_transcription
    \* and the locals it holds there
    monitor,
    \* time.time(), ms
    now,
    \* server.py: the connection and app.state
    audio_chunks, message_queue, app_current_language, app_history,
    callbacks, processor, recv_task,
    \* websocket_endpoint: the feed, send and status tasks, and where the
    \* handler itself stands
    tasks, endpoint,
    \* the operation that ran last: its name, argument and return value,
    \* and the callbacks and appends it performed, in program order
    op, trace

sessionVars ==
    <<current_language, auto_language_switching, export_path, processing_times,
      recorder, recorder_language, post_speech_silence_duration,
      realtime_text, current_confidence, silence_time, silence_active,
      _last_partial_text, transcription_history,
      auto_save_counter, shutdown_performed, now, monitor>>

serverVars ==
    <<audio_chunks, message_queue, app_current_language, app_history,
      callbacks, processor, recv_task, tasks, endpoint>>

vars == <<sessionVars, serverVars, op, trace>>

Op(name, arg, ret) == [name |-> name, arg |-> arg, ret |-> ret]

(***************************************************************************)
(* transcribe.py: OptimizedTranscriptionProcessor                          *)
(***************************************************************************)
\* waiting times the turn detector reports to on_new_waiting_time, ms
WaitingTimes == {400, 500}
\* keep_recent arguments of clear_history
KeepRecent == {0, 1}

\* __init__: the recorder is created, the monitor thread runs, nothing is
\* transcribed yet; current_language is source_language as given
\* the monitor thread outside _finalize_current_transcription; text and
\* confidence are the values it has read for the result it is building
MonitorIdle ==
    [pc |-> "idle", detected_lang |-> "", has_mixed |-> FALSE,
     text |-> None, confidence |-> 0]

SessionInitWith(source_languages, auto_switching, export_paths, histories) ==
    /\ current_language \in source_languages
    /\ auto_language_switching \in auto_switching
    /\ export_path \in export_paths
    /\ recorder = TRUE
    /\ recorder_language =
           IF current_language \in LANGUAGE_MODELS /\ whisper_code(current_language) # ""
           THEN whisper_code(current_language) ELSE "en"
    /\ post_speech_silence_duration = POST_SPEECH_SILENCE_DURATION
    /\ realtime_text = None
    /\ current_confidence = 0
    /\ silence_time = 0
    /\ silence_active = FALSE
    /\ _last_partial_text = <<>>
    /\ transcription_history \in histories
    /\ auto_save_counter = 0
    /\ processing_times = <<>>
    /\ shutdown_performed = FALSE
    /\ monitor = MonitorIdle
    /\ now = TickMs

SessionInit(source_languages, auto_switching, export_paths) ==
    SessionInitWith(source_languages, auto_switching, export_paths, {<<>>})

\* history.append(result) followed by the trim to the last capacity entries
\* (capacity is _TRANSCRIPTION_CACHE_SIZE)
AppendTrimmedTo(history, result, capacity) ==
    LET h == Append(history, result)
    IN  IF Len(h) > capacity THEN LastN(h, capacity) ELSE h

AppendTrimmed(history, result) ==
    AppendTrimmedTo(history, result, _TRANSCRIPTION_CACHE_SIZE)

\* texts with the characters json.dump escapes: a quotation mark, a backslash
\* followed by the letter n, a line feed; and a lone surrogate, which the
\* utf-8 file refuses
T_quote == <<34, 97, 34>>
T_backslash_n == <<92, 110>>
T_newline == <<97, 10, 98>>
T_surrogate == <<55357>>

\* results as the export test assigns them to transcription_history: final
\* and partial ones
ExportResults ==
    {TranscriptionResult(T_quote, 0, "en", TRUE, 0, FALSE),
     TranscriptionResult(T_backslash_n, 0, "hi", TRUE, 0, FALSE),
     TranscriptionResult(T_newline, 0, "hi", FALSE, 0, FALSE),
     TranscriptionResult(T_backslash_n, 0, "en", FALSE, 0, FALSE),
     TranscriptionResult(T_surrogate, 0, "en", TRUE, 0, FALSE)}

ExportHistories ==
    UNION {[1..n -> ExportResults] : n \in 0..MaxExportHistory}

\* the arguments of export_transcriptions: path (a path, or None), format,
\* filter_final_only, include_metadata; io_fails is the file system refusing
\* mkdir or open
ExportArgs ==
    [path : {[str |-> "export.json"], [none |-> TRUE]},
     format : {"json", "csv", "txt", "xml"},
     filter_final_only : BOOLEAN,
     include_metadata : BOOLEAN,
     io_fails : BOOLEAN]

\* json.dumps of a str with ensure_ascii=False: one character
JsonEscape(c) ==
    IF c = 34 THEN <<92, 34>>
    ELSE IF c = 92 THEN <<92, 92>>
    ELSE IF c = 10 THEN <<92, 110>>
    ELSE IF c = 13 THEN <<92, 114>>
    ELSE IF c = 9 THEN <<92, 116>>
    ELSE <<c>>

RECURSIVE JsonEscapeAll(_)
JsonEscapeAll(text) ==
    IF text = <<>> THEN <<>>
    ELSE JsonEscape(Head(text)) \o JsonEscapeAll(Tail(text))

\* json.dumps of a str: the string literal
JsonDumpString(text) == <<34>> \o JsonEscapeAll(text) \o <<34>>

\* json.loads of an escape sequence: the character after the backslash
JsonUnescape(c) ==
    IF c = 110 THEN 10
    ELSE IF c = 114 THEN 13
    ELSE IF c = 116 THEN 9
    ELSE c

RECURSIVE JsonUnescapeAll(_)
JsonUnescapeAll(chars) ==
    IF chars = <<>> THEN <<>>
    ELSE IF Head(chars) = 92 /\ Len(chars) >= 2
    THEN <<JsonUnescape(chars[2])>> \o JsonUnescapeAll(SubSeq(chars, 3, Len(chars)))
    ELSE <<Head(chars)>> \o JsonUnescapeAll(Tail(chars))

\* json.loads of a string literal
JsonLoadString(literal) ==
    JsonUnescapeAll(SubSeq(literal, 2, Len(literal) - 1))

\* json.dumps and json.loads of a bool
JsonDumpBool(b) == IF b THEN "true" ELSE "false"
JsonLoadBool(literal) == literal = "true"

RECURSIVE SelectFinal(_)
SelectFinal(history) ==
    IF history = <<>> THEN <<>>
    ELSE IF Head(history).is_final
    THEN <<Head(history)>> \o SelectFinal(Tail(history))
    ELSE SelectFinal(Tail(history))

ExportData_unfiltered(history, filter_final_only) == history

\* export_transcriptions: `data`, the entries to export
ExportData(history, filter_final_only) ==
    IF filter_final_only THEN SelectFinal(history) ELSE history

\* the utf-8 encoder of the file accepts the text
Utf8Encodable(text) == \A i \in 1..Len(text) : text[i] \notin 55296..57343

\* TranscriptionResult.to_dict as json.dump writes it (a language is a str
\* without characters to escape; numbers are written as they are; timestamps
\* are clock readings)
JsonDumpResult(t) ==
    [text |-> JsonDumpString(t.text),
     language |-> [str |-> t.language],
     is_final |-> JsonDumpBool(t.is_final),
     confidence |-> t.confidence,
     word_count |-> t.word_count,
     has_mixed_language |-> JsonDumpBool(t.has_mixed_language)]

\* the file export_transcriptions writes, by format
ExportFile(data, format, include_metadata) ==
    IF format = "json"
    THEN LET export_data == [i \in 1..Len(data) |-> JsonDumpResult(data[i])]
         IN  IF include_metadata
             THEN [metadata |->
                      [total_transcriptions |-> Len(data),
                       languages |-> {data[i].language : i \in 1..Len(data)}],
                   transcriptions |-> export_data]
             ELSE [transcriptions_only |-> export_data]
    ELSE IF format = "csv"
    THEN [rows |-> [i \in 1..Len(data) |->
                       [text |-> data[i].text, language |-> data[i].language,
                        confidence |-> data[i].confidence,
                        word_count |-> data[i].word_count,
                        has_mixed_language |-> data[i].has_mixed_language]]]
    ELSE [header |-> IF include_metadata
                     THEN [total_transcriptions |-> Len(data),
                           languages |-> {data[i].language : i \in 1..Len(data)}]
                     ELSE [none |-> TRUE],
          lines |-> [i \in 1..Len(data) |->
                        [lang_str |-> IF data[i].language # "unknown"
                                      THEN data[i].language ELSE "",
                         text |-> data[i].text,
                         conf_str |-> IF data[i].confidence > 0
                                      THEN data[i].confidence ELSE 0]]]

\* the body of the try of export_transcriptions: whether it raises (Path(None),
\* a refused mkdir or open, a text the file cannot encode), and the file
\* written if it does not; a format other than the three writes nothing
ExportBody(history, args) ==
    LET data == ExportData(history, args.filter_final_only)
    IN  IF "none" \in DOMAIN args.path \/ args.io_fails
        THEN [raises |-> TRUE, written |-> <<>>]
        ELSE IF args.format \notin {"json", "csv", "txt"}
        THEN [raises |-> FALSE, written |-> <<>>]
        ELSE IF \E i \in 1..Len(data) : ~Utf8Encodable(data[i].text)
        THEN [raises |-> TRUE, written |-> <<>>]
        ELSE [raises |-> FALSE,
              written |-> << <<"write", ExportFile(data, args.format,
                                                   args.include_metadata)>> >>]

\* export_transcriptions without its except clause
export_transcriptions_uncaught(history, args) ==
    LET body == ExportBody(history, args)
    IN  IF body.raises
        THEN [ret |-> FALSE, trace |-> << <<"raise", "Exception">> >>]
        ELSE [ret |-> TRUE, trace |-> body.written]

\* export_transcriptions: its return value, and the file it writes or the
\* error it logs
export_transcriptions_result(history, args) ==
    LET body == ExportBody(history, args)
    IN  IF body.raises
        THEN [ret |-> FALSE, trace |-> << <<"logger.error", "Export failed">> >>]
        ELSE [ret |-> TRUE, trace |-> body.written]

\* export_transcriptions
export_transcriptions(args) ==
    LET result == export_transcriptions_result(transcription_history, args)
    IN  /\ op' = Op("export_transcriptions", args, result.ret)
        /\ trace' = result.trace
        /\ UNCHANGED <<sessionVars, serverVars>>

\* what the path holds before an export: no file, or an earlier file
PathContents == {[absent |-> TRUE], [earlier_file |-> TRUE]}

\* the contents the path holds in the course of export_transcriptions, from
\* the content before the call to the content after it: nothing is opened
\* when Path(path), mkdir or open raises, or for a format other than the
\* three; open(path, 'w') empties the file; the writes fill it entry by
\* entry; a text the file cannot encode raises in its write and leaves the
\* entries written before it
ExportPathContents(before, history, args) ==
    LET data == ExportData(history, args.filter_final_only)
        bad  == {i \in 1..Len(data) : ~Utf8Encodable(data[i].text)}
    IN  IF \/ "none" \in DOMAIN args.path
           \/ args.io_fails
           \/ args.format \notin {"json", "csv", "txt"}
        THEN <<before>>
        ELSE IF bad # {}
        THEN <<before, [opened |-> "w"],
               [incomplete |-> SubSeq(data, 1, (CHOOSE i \in bad : \A j \in bad : i <= j) - 1)]>>
        ELSE <<before, [opened |-> "w"],
               ExportFile(data, args.format, args.include_metadata)>>

\* export_transcriptions with the contents of the path it writes to
export_transcriptions_to_path(args, before) ==
    LET result   == export_transcriptions_result(transcription_history, args)
        contents == ExportPathContents(before, transcription_history, args)
    IN  /\ op' = Op("export_transcriptions", args, result.ret)
        /\ trace' = [i \in 1..Len(contents) |-> <<"path", contents[i]>>]
        /\ UNCHANGED <<sessionVars, serverVars>>

\* json.load of the exported file, and the reading of it that the export test
\* makes: the list under "transcriptions", or the file itself if it is a list
JsonLoadTranscriptions(file) ==
    LET transcriptions == IF "transcriptions" \in DOMAIN file
                          THEN file.transcriptions ELSE file.transcriptions_only
    IN  [i \in 1..Len(transcriptions) |->
            <<JsonLoadString(transcriptions[i].text),
              transcriptions[i].language.str,
              JsonLoadBool(transcriptions[i].is_final)>>]

\* _auto_save_if_needed without the reset of the counter after the export
AutoSaveCounter_no_reset(configured, counter) ==
    IF ~configured THEN counter ELSE counter + 1

\* _auto_save_if_needed: the counter afterwards
AutoSaveCounter(configured, counter) ==
    IF ~configured THEN counter
    ELSE IF counter + 1 >= _AUTO_SAVE_INTERVAL THEN 0 ELSE counter + 1

\* _auto_save_if_needed: the export it runs, of the history as it is then,
\* and what the export does
AutoSaveTrace(configured, counter, history) ==
    IF configured /\ counter + 1 >= _AUTO_SAVE_INTERVAL
    THEN << <<"export_transcriptions", "json">> >>
         \o export_transcriptions_result(history,
                [path |-> [str |-> "export.json"], format |-> "json",
                 filter_final_only |-> TRUE, include_metadata |-> TRUE,
                 io_fails |-> FALSE]).trace
    ELSE <<>>

\* switch_language without the registry check of its first lines
switch_language_unvalidated(new_language, language, rec, rec_language) ==
    IF new_language = language
    THEN [ret |-> TRUE, language |-> language, rec_language |-> rec_language,
          trace |-> <<>>]
    ELSE [ret |-> TRUE, language |-> new_language,
          rec_language |-> IF whisper_code(new_language) # "" /\ rec
                           THEN whisper_code(new_language) ELSE rec_language,
          trace |-> << <<"language_detection_callback", new_language>>,
                       <<"language_switched", <<language, new_language>> >> >>]

\* switch_language: return value, language, recorder parameter, and the
\* observer call and log line ("Language switched: old -> new") it makes
switch_language_result(new_language, language, rec, rec_language) ==
    IF new_language \notin LANGUAGE_MODELS
    THEN [ret |-> FALSE, language |-> language, rec_language |-> rec_language,
          trace |-> <<>>]
    ELSE IF new_language = language
    THEN [ret |-> TRUE, language |-> language, rec_language |-> rec_language,
          trace |-> <<>>]
    ELSE [ret |-> TRUE, language |-> new_language,
          rec_language |-> IF whisper_code(new_language) # "" /\ rec
                           THEN whisper_code(new_language) ELSE rec_language,
          trace |-> << <<"language_detection_callback", new_language>>,
                       <<"language_switched", <<language, new_language>> >> >>]

switch_language(new_language) ==
    LET r == switch_language_result(new_language, current_language, recorder,
                                    recorder_language)
    IN  /\ current_language' = r.language
        /\ recorder_language' = r.rec_language
        /\ op' = Op("switch_language", new_language, r.ret)
        /\ trace' = r.trace
        /\ UNCHANGED <<auto_language_switching, export_path, processing_times, recorder,
                       post_speech_silence_duration, realtime_text,
                       current_confidence, silence_time, silence_active,
                       _last_partial_text,
                       transcription_history, auto_save_counter,
                       shutdown_performed, now, serverVars, monitor>>

\* set_silence without the comparison with the current value
set_silence_trace_always(value) ==
    << <<"silence_active_callback", value>> >>

\* set_silence: the observer is called only on a change
set_silence_trace(value) ==
    IF silence_active # value
    THEN << <<"silence_active_callback", value>> >> ELSE <<>>

\* on_turn_detection_start; s is the recorder's speech_end_silence_start
start_silence_detection(s) ==
    /\ silence_active' = TRUE
    /\ silence_time' = IF recorder /\ s # 0 THEN s ELSE now
    /\ op' = Op("start_silence_detection", s, TRUE)
    /\ trace' = set_silence_trace(TRUE)
    /\ UNCHANGED <<current_language, auto_language_switching, export_path, processing_times,
                   recorder, recorder_language, post_speech_silence_duration,
                   realtime_text, current_confidence,
                   _last_partial_text, transcription_history,
                   auto_save_counter, shutdown_performed, now, serverVars, monitor>>

\* on_turn_detection_stop
stop_silence_detection ==
    /\ silence_active' = FALSE
    /\ silence_time' = 0
    /\ op' = Op("stop_silence_detection", 0, TRUE)
    /\ trace' = set_silence_trace(FALSE)
    /\ UNCHANGED <<current_language, auto_language_switching, export_path, processing_times,
                   recorder, recorder_language, post_speech_silence_duration,
                   realtime_text, current_confidence,
                   _last_partial_text, transcription_history,
                   auto_save_counter, shutdown_performed, now, serverVars, monitor>>

\* on_recording_start (recording_start_time is a clock reading only the
\* duration of a result depends on)
start_recording ==
    /\ silence_active' = FALSE
    /\ silence_time' = 0
    /\ _last_partial_text' = <<>>
    /\ op' = Op("start_recording", 0, TRUE)
    /\ trace' = set_silence_trace(FALSE) \o << <<"on_recording_start_callback", 0>> >>
    /\ UNCHANGED <<current_language, auto_language_switching, export_path, processing_times,
                   recorder, recorder_language, post_speech_silence_duration,
                   realtime_text, current_confidence, transcription_history,
                   auto_save_counter, shutdown_performed, now, serverVars, monitor>>

\* on_recording_stop
stop_recording(audio) ==
    /\ current_confidence' =
           IF Truthy(realtime_text)
           THEN estimate_confidence(realtime_text, audio, current_language)
           ELSE current_confidence
    /\ op' = Op("stop_recording", 0, FALSE)
    /\ trace' = <<>>
    /\ UNCHANGED <<current_language, auto_language_switching, export_path, processing_times,
                   recorder, recorder_language, post_speech_silence_duration,
                   realtime_text, silence_time, silence_active,
                   _last_partial_text,
                   transcription_history, auto_save_counter,
                   shutdown_performed, now, serverVars, monitor>>

\* the automatic switch without the two-of-three condition of code-switch mode
AutoSwitchTarget_immediate(text, language, history) ==
    LET detected_lang == detect_language(text)
    IN  IF detected_lang # "" /\ detected_lang # language
        THEN IF _has_mixed_scripts(text) /\ language # "hi-en" THEN "hi-en"
             ELSE IF detected_lang \in {"hi", "en"} /\ ~_has_mixed_scripts(text)
                  THEN detected_lang
                  ELSE language
        ELSE language

\* on_partial: the language the automatic switch asks switch_language for
\* (the current one when it asks for none)
AutoSwitchTarget(text, language, history) ==
    LET detected_lang == detect_language(text)
        recent_detections ==
            LET recent == LastN(history, 3)
            IN  [i \in {j \in 1..Len(recent) : Truthy(recent[j].text)}
                    |-> detect_language(recent[i].text)]
        agreeing ==
            Cardinality({i \in DOMAIN recent_detections :
                            recent_detections[i] = detected_lang})
    IN  IF detected_lang # "" /\ detected_lang # language
        THEN IF _has_mixed_scripts(text) /\ language # "hi-en" THEN "hi-en"
             ELSE IF detected_lang \in {"hi", "en"} /\ ~_has_mixed_scripts(text)
                  THEN IF language = "hi-en"
                       THEN IF agreeing >= 2 THEN detected_lang ELSE language
                       ELSE detected_lang
                  ELSE language
        ELSE language

\* the pairs (last emitted text, stripped text) the dedup of on_partial meets
\* with the inputs above, and those of them that is_similar accepts at
\* _SIMILARITY_THRESHOLD: the same comparison, made once for each pair
DedupTexts ==
    {strip_ending_punctuation(t) :
        t \in (PartialTexts \cup UtteranceTexts \cup LanguageTexts
                 \cup MixedTexts) \ {None}}
DedupPairs == (DedupTexts \cup {<<>>}) \X DedupTexts
\* a dedup that judges no pair similar
SimilarPairs_none == {}
SimilarPairs ==
    {p \in DedupPairs : is_similar(p[1], p[2], _SIMILARITY_THRESHOLD)}

\* processing_time = time.time() - processing_start: the clock does not
\* advance within a handler
ProcessingTime == now - now

\* on_partial, lines 847-848: the trim to the last measurements
ProcessingTimesTrimmed(times) ==
    IF Len(times) > PROCESSING_TIMES_KEPT
    THEN LastN(times, PROCESSING_TIMES_KEPT) ELSE times

\* on_realtime_transcription_update
on_partial(text, audio) ==
    IF ~Truthy(text)
    THEN /\ op' = Op("on_partial", text, FALSE)
         /\ trace' = <<>>
         /\ UNCHANGED <<sessionVars, serverVars, monitor>>
    ELSE
    LET confidence == estimate_confidence(text, audio, current_language)
        target == IF auto_language_switching
                  THEN AutoSwitchTarget(text, current_language, transcription_history)
                  ELSE current_language
        sw == switch_language_result(target, current_language, recorder,
                                     recorder_language)
        result == TranscriptionResult(text, confidence, sw.language, FALSE,
                                      Len(Split(text)), _has_mixed_scripts(text))
        stripped_text == strip_ending_punctuation(text)
        suppressed == IF <<_last_partial_text, stripped_text>> \in DedupPairs
                      THEN <<_last_partial_text, stripped_text>> \in SimilarPairs
                      ELSE is_similar(_last_partial_text, stripped_text,
                                      _SIMILARITY_THRESHOLD)
    IN  /\ realtime_text' = text
        /\ current_confidence' = confidence
        /\ current_language' = sw.language
        /\ recorder_language' = sw.rec_language
        /\ _last_partial_text' = IF suppressed THEN _last_partial_text ELSE stripped_text
        /\ processing_times' =
               IF suppressed THEN processing_times
               ELSE ProcessingTimesTrimmed(Append(processing_times, ProcessingTime))
        /\ op' = Op("on_partial", text, ~suppressed)
        /\ trace' = sw.trace \o
                    (IF suppressed THEN <<>>
                     ELSE << <<"realtime_transcription_callback", result>>,
                             <<"confidence_callback", confidence>> >>)
        /\ UNCHANGED <<auto_language_switching, export_path, recorder,
                       post_speech_silence_duration, silence_time, silence_active,
                       transcription_history,
                       auto_save_counter, shutdown_performed, now, serverVars, monitor>>

\* on_realtime_transcription_update when realtime_transcription_callback
\* raises: the statements before the call have run, confidence_callback and
\* the rest have not, and nothing in on_partial catches the exception, which
\* leaves it towards the recorder that called it
on_partial_callback_raises(text, audio) ==
    /\ Truthy(text)
    /\ LET confidence == estimate_confidence(text, audio, current_language)
           target == IF auto_language_switching
                     THEN AutoSwitchTarget(text, current_language, transcription_history)
                     ELSE current_language
           sw == switch_language_result(target, current_language, recorder,
                                        recorder_language)
           result == TranscriptionResult(text, confidence, sw.language, FALSE,
                                         Len(Split(text)), _has_mixed_scripts(text))
           stripped_text == strip_ending_punctuation(text)
           suppressed == IF <<_last_partial_text, stripped_text>> \in DedupPairs
                         THEN <<_last_partial_text, stripped_text>> \in SimilarPairs
                         ELSE is_similar(_last_partial_text, stripped_text,
                                         _SIMILARITY_THRESHOLD)
       IN  /\ ~suppressed
           /\ realtime_text' = text
           /\ current_confidence' = confidence
           /\ current_language' = sw.language
           /\ recorder_language' = sw.rec_language
           /\ _last_partial_text' = stripped_text
           /\ op' = Op("on_partial", text, FALSE)
           /\ trace' = sw.trace \o
                       << <<"realtime_transcription_callback", result>>,
                          <<"raise", "Exception">> >>
    /\ UNCHANGED <<auto_language_switching, export_path, processing_times, recorder,
                   post_speech_silence_duration, silence_time, silence_active,
                   transcription_history,
                   auto_save_counter, shutdown_performed, now, serverVars, monitor>>

\* on_recording_start when on_recording_start_callback raises: the resets
\* have run, the exception leaves start_recording uncaught
start_recording_callback_raises ==
    /\ silence_active' = FALSE
    /\ silence_time' = 0
    /\ _last_partial_text' = <<>>
    /\ op' = Op("start_recording", 0, FALSE)
    /\ trace' = set_silence_trace(FALSE)
                \o << <<"on_recording_start_callback", 0>>,
                      <<"raise", "Exception">> >>
    /\ UNCHANGED <<current_language, auto_language_switching, export_path, processing_times,
                   recorder, recorder_language, post_speech_silence_duration,
                   realtime_text, current_confidence, transcription_history,
                   auto_save_counter, shutdown_performed, now, serverVars, monitor>>

\* on_final of _create_recorder: defined there, but registered with the
\* recorder by neither active_config nor transcribe_loop
on_final(text, audio) ==
    IF ~Truthy(text) \/ Strip(text) = <<>>
    THEN /\ op' = Op("on_final", text, FALSE)
         /\ trace' = <<>>
         /\ UNCHANGED <<sessionVars, serverVars, monitor>>
    ELSE
    LET confidence == estimate_confidence(text, audio, current_language)
        detected == detect_language(text)
        final_language == IF detected # "" THEN detected ELSE current_language
        result == TranscriptionResult(text, confidence, final_language, TRUE,
                                      Len(Split(text)), _has_mixed_scripts(text))
    IN  /\ Len(processing_times) < MaxProcessingTimes
        /\ processing_times' = Append(processing_times, ProcessingTime)
        /\ transcription_history' = AppendTrimmed(transcription_history, result)
        /\ auto_save_counter' = AutoSaveCounter(export_path, auto_save_counter)
        /\ op' = Op("on_final", text, TRUE)
        /\ trace' = << <<"history.append", result>>,
                       <<"full_transcription_callback", result>> >>
                    \o AutoSaveTrace(export_path, auto_save_counter, transcription_history')
        /\ UNCHANGED <<current_language, auto_language_switching, export_path,
                       recorder, recorder_language, post_speech_silence_duration,
                       realtime_text, current_confidence, silence_time,
                       silence_active, _last_partial_text,
                       shutdown_performed, now, serverVars, monitor>>

\* transcribe_loop: enhanced_on_final, the callback recorder.text() invokes
\* with the recognizer's final text
enhanced_on_final(text) ==
    /\ op' = Op("on_final", text, FALSE)
    /\ trace' = <<>>
    /\ UNCHANGED <<sessionVars, serverVars, monitor>>

\* a finalized result built from the last emitted partial text instead
FinalizedResult_last_emitted ==
    LET detected == detect_language(_last_partial_text)
    IN  TranscriptionResult(_last_partial_text, current_confidence,
                            IF detected # "" THEN detected ELSE current_language,
                            TRUE, Len(Split(_last_partial_text)),
                            _has_mixed_scripts(_last_partial_text))

\* the result _finalize_current_transcription builds from the session
FinalizedResult ==
    LET detected == detect_language(realtime_text)
    IN  TranscriptionResult(realtime_text, current_confidence,
                            IF detected # "" THEN detected ELSE current_language,
                            TRUE, Len(Split(realtime_text)),
                            _has_mixed_scripts(realtime_text))

\* _finalize_current_transcription of a session whose
\* _TRANSCRIPTION_CACHE_SIZE is capacity
_finalize_current_transcription_at(capacity) ==
    IF ~Truthy(realtime_text)
    THEN UNCHANGED vars
    ELSE /\ transcription_history' =
                AppendTrimmedTo(transcription_history, FinalizedResult, capacity)
         /\ auto_save_counter' = AutoSaveCounter(export_path, auto_save_counter)
         /\ op' = Op("monitor", realtime_text, TRUE)
         /\ trace' = << <<"history.append", FinalizedResult>>,
                        <<"full_transcription_callback", FinalizedResult>> >>
                     \o AutoSaveTrace(export_path, auto_save_counter, transcription_history')
         /\ UNCHANGED <<current_language, auto_language_switching, export_path, processing_times,
                        recorder, recorder_language, post_speech_silence_duration,
                        realtime_text, current_confidence, silence_time,
                        silence_active, _last_partial_text,
                        shutdown_performed, now, serverVars, monitor>>

\* _finalize_current_transcription
_finalize_current_transcription ==
    _finalize_current_transcription_at(_TRANSCRIPTION_CACHE_SIZE)

\* the monitor's finalize_threshold, ms
finalize_threshold ==
    post_speech_silence_duration - PIPELINE_LATENCY - _PIPELINE_RESERVE_TIME_MS

\* the condition under which one pass of the monitor loop finalizes
MonitorFires ==
    /\ recorder
    /\ silence_time # 0
    /\ now - silence_time > finalize_threshold
    /\ Truthy(realtime_text)

\* one pass of the loop of _start_silence_monitor (a pass that does not
\* finalize changes nothing)
MonitorPoll ==
    /\ ~shutdown_performed
    /\ IF MonitorFires THEN _finalize_current_transcription ELSE UNCHANGED vars

\* one finalizing pass of the monitor loop in a session with the larger
\* history capacity
MonitorPoll_EvictionCapacity ==
    /\ ~shutdown_performed
    /\ MonitorFires
    /\ _finalize_current_transcription_at(EvictionCapacity)

\* _finalize_current_transcription as the monitor thread runs it, next to
\* the recorder's thread: its first statements read realtime_text and
\* current_language into detected_lang and has_mixed; no lock is taken
_finalize_current_transcription_detect ==
    /\ ~shutdown_performed
    /\ monitor.pc = "idle"
    /\ MonitorFires
    /\ monitor' = [pc |-> "result",
                   detected_lang |-> IF detect_language(realtime_text) # ""
                                     THEN detect_language(realtime_text)
                                     ELSE current_language,
                   has_mixed |-> _has_mixed_scripts(realtime_text),
                   text |-> None, confidence |-> 0]
    /\ op' = Op("_finalize_current_transcription", "detect", TRUE)
    /\ trace' = <<>>
    /\ UNCHANGED <<current_language, auto_language_switching, export_path, processing_times,
                   recorder, recorder_language, post_speech_silence_duration,
                   realtime_text, current_confidence, silence_time,
                   silence_active, _last_partial_text, transcription_history,
                   auto_save_counter, shutdown_performed, now, serverVars>>

\* the rest of _finalize_current_transcription: the result is built from
\* realtime_text and current_confidence as they are then, appended, reported
\* and counted for the auto-save
_finalize_current_transcription_append ==
    /\ monitor.pc = "result"
    /\ Truthy(realtime_text)
    /\ LET result == TranscriptionResult(realtime_text, current_confidence,
                                         monitor.detected_lang, TRUE,
                                         Len(Split(realtime_text)),
                                         monitor.has_mixed)
       IN  /\ transcription_history' = AppendTrimmed(transcription_history, result)
           /\ trace' = << <<"history.append", result>>,
                          <<"full_transcription_callback", result>> >>
                       \o AutoSaveTrace(export_path, auto_save_counter, transcription_history')
    /\ auto_save_counter' = AutoSaveCounter(export_path, auto_save_counter)
    /\ monitor' = MonitorIdle
    /\ op' = Op("_finalize_current_transcription", "append", TRUE)
    /\ UNCHANGED <<current_language, auto_language_switching, export_path, processing_times,
                   recorder, recorder_language, post_speech_silence_duration,
                   realtime_text, current_confidence, silence_time,
                   silence_active, _last_partial_text,
                   shutdown_performed, now, serverVars>>

\* the construction of the result taken argument by argument: text and
\* confidence are read from the session first (lines 380-381)
_finalize_current_transcription_text ==
    /\ monitor.pc = "result"
    /\ Truthy(realtime_text)
    /\ monitor' = [monitor EXCEPT !.pc = "word_count",
                                  !.text = realtime_text,
                                  !.confidence = current_confidence]
    /\ op' = Op("_finalize_current_transcription", "text", TRUE)
    /\ trace' = <<>>
    /\ UNCHANGED <<current_language, auto_language_switching, export_path, processing_times,
                   recorder, recorder_language, post_speech_silence_duration,
                   realtime_text, current_confidence, silence_time,
                   silence_active, _last_partial_text, transcription_history,
                   auto_save_counter, shutdown_performed, now, serverVars>>

\* word_count is computed from realtime_text as it is when line 386 reads it
\* again
FinalizedWordCount(text_at_386) == Len(Split(text_at_386))

\* then word_count is read (line 386) and the result is appended, reported
\* and counted for the auto-save (lines 390-400)
_finalize_current_transcription_word_count ==
    /\ monitor.pc = "word_count"
    /\ LET result == TranscriptionResult(monitor.text, monitor.confidence,
                                         monitor.detected_lang, TRUE,
                                         FinalizedWordCount(realtime_text),
                                         monitor.has_mixed)
       IN  /\ transcription_history' = AppendTrimmed(transcription_history, result)
           /\ trace' = << <<"history.append", result>>,
                          <<"full_transcription_callback", result>> >>
                       \o AutoSaveTrace(export_path, auto_save_counter, transcription_history')
    /\ auto_save_counter' = AutoSaveCounter(export_path, auto_save_counter)
    /\ monitor' = MonitorIdle
    /\ op' = Op("_finalize_current_transcription", "word_count", TRUE)
    /\ UNCHANGED <<current_language, auto_language_switching, export_path, processing_times,
                   recorder, recorder_language, post_speech_silence_duration,
                   realtime_text, current_confidence, silence_time,
                   silence_active, _last_partial_text,
                   shutdown_performed, now, serverVars>>

\* force_finalize
force_finalize(audio) ==
    IF ~recorder \/ ~Truthy(realtime_text)
    THEN /\ op' = Op("force_finalize", realtime_text, FALSE)
         /\ trace' = <<>>
         /\ UNCHANGED <<sessionVars, serverVars, monitor>>
    ELSE
    LET confidence == estimate_confidence(realtime_text, audio, current_language)
        detected == detect_language(realtime_text)
        result == TranscriptionResult(realtime_text, confidence,
                      IF detected # "" THEN detected ELSE current_language,
                      TRUE, Len(Split(realtime_text)),
                      _has_mixed_scripts(realtime_text))
    IN  /\ Len(transcription_history) < MaxHistory
        /\ transcription_history' = Append(transcription_history, result)
        /\ auto_save_counter' = AutoSaveCounter(export_path, auto_save_counter)
        /\ op' = Op("force_finalize", realtime_text, TRUE)
        /\ trace' = << <<"history.append", result>>,
                       <<"full_transcription_callback", result>> >>
                    \o AutoSaveTrace(export_path, auto_save_counter, transcription_history')
        /\ UNCHANGED <<current_language, auto_language_switching, export_path, processing_times,
                       recorder, recorder_language, post_speech_silence_duration,
                       realtime_text, current_confidence, silence_time,
                       silence_active, _last_partial_text,
                       shutdown_performed, now, serverVars, monitor>>

\* clear_history
clear_history(keep_recent) ==
    /\ transcription_history' =
           IF keep_recent > 0
           THEN LastN(transcription_history, keep_recent) ELSE <<>>
    /\ auto_save_counter' = 0
    /\ op' = Op("clear_history", keep_recent, TRUE)
    /\ trace' = <<>>
    /\ UNCHANGED <<current_language, auto_language_switching, export_path, processing_times,
                   recorder, recorder_language, post_speech_silence_duration,
                   realtime_text, current_confidence, silence_time,
                   silence_active, _last_partial_text,
                   shutdown_performed, now, serverVars, monitor>>

\* estimate_confidence, called from outside, as the tests call it
call_estimate_confidence(text, audio_data) ==
    /\ op' = Op("estimate_confidence", [text |-> text, audio_data |-> audio_data], TRUE)
    /\ trace' = << <<"return", estimate_confidence(text, audio_data, current_language)>> >>
    /\ UNCHANGED <<sessionVars, serverVars>>

\* TextSimilarity.is_similar, called from outside, as the tests call it
call_is_similar(text1, text2, threshold) ==
    /\ op' = Op("is_similar",
                [text1 |-> text1, text2 |-> text2, threshold |-> threshold],
                is_similar(text1, text2, threshold))
    /\ trace' = <<>>
    /\ UNCHANGED <<sessionVars, serverVars>>

\* on_new_waiting_time, called by the turn detector
on_new_waiting_time(waiting_time) ==
    /\ post_speech_silence_duration' =
           IF recorder THEN waiting_time ELSE post_speech_silence_duration
    /\ op' = Op("on_new_waiting_time", waiting_time, TRUE)
    /\ trace' = <<>>
    /\ UNCHANGED <<current_language, auto_language_switching, export_path, processing_times,
                   recorder, recorder_language, realtime_text,
                   current_confidence, silence_time, silence_active,
                   _last_partial_text,
                   transcription_history, auto_save_counter,
                   shutdown_performed, now, serverVars, monitor>>

\* feed_audio without the test of shutdown_performed
FeedsRecorder_unguarded(rec, performed) == rec

\* feed_audio hands the chunk to the recorder only with a recorder and
\* before shutdown
FeedsRecorder(rec, performed) == rec /\ ~performed

\* feed_audio; recorder_raises is whether recorder.feed_audio raises, which
\* the handler catches and logs
feed_audio(chunk, recorder_raises) ==
    /\ op' = Op("feed_audio", chunk, TRUE)
    /\ trace' = IF FeedsRecorder(recorder, shutdown_performed)
                THEN << <<"recorder.feed_audio", chunk>> >>
                     \o (IF recorder_raises
                         THEN << <<"logger.error", "Error feeding audio">> >>
                         ELSE <<>>)
                ELSE <<>>
    /\ UNCHANGED <<sessionVars, serverVars>>

\* shutdown: the flag is set first; with an empty history get_statistics
\* returns a dictionary without 'total_processed_audio' and the report of the
\* final statistics raises KeyError before the recorder is shut down;
\* otherwise the final export runs (its own failures are caught) and the
\* recorder is shut down and dropped
shutdown ==
    IF shutdown_performed
    THEN /\ op' = Op("shutdown", 0, FALSE)
         /\ trace' = <<>>
         /\ UNCHANGED <<sessionVars, serverVars>>
    ELSE /\ shutdown_performed' = TRUE
         /\ recorder' = IF transcription_history = <<>> THEN recorder ELSE FALSE
         /\ op' = Op("shutdown", 0, TRUE)
         /\ trace' =
               IF transcription_history = <<>>
               THEN << <<"raise", "KeyError">> >>
               ELSE (IF export_path
                     THEN << <<"export_transcriptions", "json">> >>
                          \o export_transcriptions_result(transcription_history,
                                 [path |-> [str |-> "export_final.json"],
                                  format |-> "json", filter_final_only |-> TRUE,
                                  include_metadata |-> TRUE,
                                  io_fails |-> FALSE]).trace
                     ELSE <<>>)
                    \o (IF recorder THEN << <<"recorder.shutdown", 0>> >> ELSE <<>>)
         /\ UNCHANGED <<current_language, auto_language_switching, export_path, processing_times,
                        recorder_language, post_speech_silence_duration,
                        realtime_text, current_confidence, silence_time,
                        silence_active, _last_partial_text,
                        transcription_history, auto_save_counter, now,
                        serverVars, monitor>>

\* time passes
Tick ==
    /\ now + TickMs <= MaxTime
    /\ now' = now + TickMs
    /\ op' = Op("tick", 0, TRUE)
    /\ trace' = <<>>
    /\ UNCHANGED <<current_language, auto_language_switching, export_path, processing_times,
                   recorder, recorder_language, post_speech_silence_duration,
                   realtime_text, current_confidence, silence_time,
                   silence_active, _last_partial_text,
                   transcription_history, auto_save_counter,
                   shutdown_performed, serverVars, monitor>>

(***************************************************************************)
(* server.py: one WebSocket connection                                     *)
(***************************************************************************)
DEFAULT_LANGUAGE == "en"
SUPPORTED_LANGUAGES == {"en", "hi", "hi-en"}

\* binary messages: a 5-byte one, and two with the 8-byte header
\* (timestamp 7, flags 1, two PCM bytes; timestamp 256, flags 2, one PCM byte)
RawShort == <<0, 0, 0, 1, 0>>
RawA == <<0, 0, 0, 7, 0, 0, 0, 1, 10, 20>>
RawB == <<0, 0, 1, 0, 0, 0, 0, 2, 30>>
RawMessages == {RawShort, RawA, RawB}

\* further binary messages: RawA with flags 3 instead of 1, a header with no
\* PCM byte after it, and one whose timestamp and flags use the higher bytes
RawFlags3 == <<0, 0, 0, 7, 0, 0, 0, 3, 10, 20>>
RawHeader == <<0, 0, 0, 9, 0, 0, 0, 0>>
RawWide == <<0, 0, 8, 1, 0, 1, 0, 0, 40>>
FrameMessages == RawMessages \cup {RawFlags3, RawHeader, RawWide}

\* parsed text messages; invalid JSON parses to the empty dictionary, whose
\* type is None (""); a change_language message may lack its language
TextMessages ==
    {[type |-> ""], [type |-> "ping"], [type |-> "clear_history"]}
    \cup {[type |-> "change_language", language |-> l] :
             l \in {"en", "hi", "hi-en", "fr", "missing"}}

\* struct.unpack("!I", four bytes)
Uint32BE(b) == ((b[1] * 256 + b[2]) * 256 + b[3]) * 256 + b[4]

\* struct.pack("!II", timestamp_ms, flags) + audio_data, read back: the
\* triple a binary message encodes
EncodedTriple(raw) ==
    <<Uint32BE(SubSeq(raw, 1, 4)), Uint32BE(SubSeq(raw, 5, 8)),
      SubSeq(raw, 9, Len(raw))>>

\* the metadata dictionary put on the queue (the server receive time and the
\* formatted timestamps are clock readings and prints)
FrameMetadata(raw) ==
    LET timestamp_ms == Uint32BE(SubSeq(raw, 1, 4))
        flags == Uint32BE(SubSeq(raw, 5, 8))
    IN  [client_sent_ms |-> timestamp_ms,
         client_sent |-> timestamp_ms * 1000000,
         isTTSPlaying |-> flags % 2 = 1,
         pcm |-> SubSeq(raw, 9, Len(raw))]

\* websocket_endpoint: queues created, callbacks bound, four tasks started
ServerInit ==
    /\ audio_chunks = <<>>
    /\ message_queue = <<>>
    /\ app_current_language = DEFAULT_LANGUAGE
    /\ app_history = <<>>
    /\ callbacks = [final_transcription |-> <<>>, partial_transcription |-> <<>>,
                    last_partial_text |-> <<>>, silence_active |-> TRUE,
                    is_recording |-> FALSE]
    /\ processor = [current |-> 1, shut_down |-> {}, language |-> DEFAULT_LANGUAGE,
                    callbacks_of |-> 1, connection |-> 1]
    /\ recv_task = "running"
    /\ tasks = [feed |-> "running", send |-> "running", status |-> "running"]
    /\ endpoint = "wait"

\* the receive loop without the queue-size check: every valid frame is put
ReceiveBinary_unchecked_put(raw) ==
    /\ recv_task = "running"
    /\ raw # <<>>
    /\ IF Len(raw) < 8
       THEN /\ op' = Op("receive_binary", raw, FALSE)
            /\ UNCHANGED audio_chunks
       ELSE /\ Len(audio_chunks) < MAX_AUDIO_QUEUE_SIZE + 1
            /\ audio_chunks' = Append(audio_chunks, FrameMetadata(raw))
            /\ op' = Op("receive_binary", raw, TRUE)
    /\ trace' = <<>>
    /\ UNCHANGED <<sessionVars, tasks, endpoint,
                   message_queue, app_current_language,
                   app_history, callbacks, processor, recv_task>>

\* the receive loop without the length check: struct.unpack raises on a short
\* header, the handler of Exception logs it and the task ends
ReceiveBinary_unchecked_length(raw) ==
    /\ recv_task = "running"
    /\ raw # <<>>
    /\ IF Len(raw) < 8
       THEN /\ op' = Op("receive_binary", raw, FALSE)
            /\ recv_task' = "done"
            /\ UNCHANGED audio_chunks
       ELSE IF Len(audio_chunks) < MAX_AUDIO_QUEUE_SIZE
       THEN /\ audio_chunks' = Append(audio_chunks, FrameMetadata(raw))
            /\ op' = Op("receive_binary", raw, TRUE)
            /\ UNCHANGED recv_task
       ELSE /\ op' = Op("receive_binary", raw, FALSE)
            /\ UNCHANGED <<audio_chunks, recv_task>>
    /\ trace' = <<>>
    /\ UNCHANGED <<sessionVars, tasks, endpoint,
                   message_queue, app_current_language,
                   app_history, callbacks, processor>>

\* audio_chunks = asyncio.Queue(): maxsize 0, a queue without a bound
AudioQueueMaxsize == 0

\* a queue that is full once it holds one item
QueueFull_at_one(queue, maxsize) == Len(queue) >= 1

\* asyncio.Queue.full(): a put on a full queue waits for a get
QueueFull(queue, maxsize) == maxsize > 0 /\ Len(queue) >= maxsize

\* process_incoming_data: one binary message
ReceiveBinary(raw) ==
    /\ recv_task = "running"
    /\ raw # <<>>
    /\ IF Len(raw) < 8
       THEN /\ op' = Op("receive_binary", raw, FALSE)
            /\ UNCHANGED <<audio_chunks, recv_task>>
       ELSE IF Len(audio_chunks) < MAX_AUDIO_QUEUE_SIZE
       THEN IF QueueFull(audio_chunks, AudioQueueMaxsize)
            THEN \* `await incoming_chunks.put(metadata)` does not return
                 /\ recv_task' = "waiting_put"
                 /\ op' = Op("receive_binary", raw, FALSE)
                 /\ UNCHANGED audio_chunks
            ELSE /\ audio_chunks' = Append(audio_chunks, FrameMetadata(raw))
                 /\ op' = Op("receive_binary", raw, TRUE)
                 /\ UNCHANGED recv_task
       ELSE /\ op' = Op("receive_binary", raw, FALSE)
            /\ UNCHANGED <<audio_chunks, recv_task>>
    /\ trace' = <<>>
    /\ UNCHANGED <<sessionVars, tasks, endpoint,
                   message_queue, app_current_language,
                   app_history, callbacks, processor>>

\* a field of a parsed message that is a number, and one that is a string
JsonNumber(n) == [num |-> n]
JsonString(str) == [str |-> str]

\* parsed text messages the handlers of set_speed and
\* get_recent_transcriptions meet: with numeric and with non-numeric fields,
\* and JSON texts whose value is an array or a number instead of an object
FieldMessages ==
    {[type |-> "set_speed", speed |-> JsonNumber(50)],
     [type |-> "set_speed", speed |-> JsonString("fast")],
     [type |-> "get_recent_transcriptions", limit |-> JsonNumber(1)],
     [type |-> "get_recent_transcriptions", limit |-> JsonString("all")],
     [non_object |-> "array"], [non_object |-> "number"]}

\* TranscriptionHistory.get_recent for a limit >= 0
get_recent(transcriptions, limit) ==
    IF Len(transcriptions) > limit
    THEN SubSeq(transcriptions, IF limit = 0 THEN 1 ELSE Len(transcriptions) - limit + 1,
                Len(transcriptions))
    ELSE transcriptions

\* a confirmation that names the default language whatever was asked
language_changed_default(new_language) ==
    [type |-> "language_changed", content |-> DEFAULT_LANGUAGE]

\* the confirmation of a language change
language_changed(new_language) ==
    [type |-> "language_changed", content |-> new_language]

\* process_incoming_data: an exception other than CancelledError raised in the
\* loop is logged by the handlers after it, and the task ends
ReceiveRaises(data) ==
    /\ recv_task' = "done"
    /\ op' = Op("receive_text", data, FALSE)
    /\ UNCHANGED <<app_current_language, processor, message_queue, app_history>>

\* process_incoming_data: one text message, parsed to data (the types
\* clear_history, change_language, get_recent_transcriptions and set_speed;
\* any other type but export_request matches no branch)
ReceiveText(data) ==
    /\ recv_task = "running"
    /\ IF "non_object" \in DOMAIN data
       THEN \* data.get: a list, a number or a string has no such attribute
            ReceiveRaises(data)
       ELSE IF data.type = "clear_history"
       THEN /\ Len(message_queue) < MaxMessages
            /\ app_history' = <<>>
            /\ message_queue' = Append(message_queue, [type |-> "history_cleared"])
            /\ op' = Op("receive_text", data, TRUE)
            /\ UNCHANGED <<app_current_language, processor, recv_task>>
       ELSE IF data.type = "change_language"
       THEN LET new_language == IF data.language = "missing"
                                THEN DEFAULT_LANGUAGE ELSE data.language
            IN  IF new_language \in SUPPORTED_LANGUAGES
                THEN /\ Len(message_queue) < MaxMessages
                     /\ processor.current < MaxProcessors
                     /\ app_current_language' = new_language
                     /\ processor' =
                            [current |-> processor.current + 1,
                             shut_down |-> processor.shut_down \cup {processor.current},
                             language |-> new_language,
                             callbacks_of |-> processor.current + 1,
                             connection |-> 1]
                     /\ message_queue' =
                            Append(message_queue, language_changed(new_language))
                     /\ op' = Op("receive_text", data, TRUE)
                     /\ UNCHANGED <<app_history, recv_task>>
                ELSE /\ op' = Op("receive_text", data, FALSE)
                     /\ UNCHANGED <<app_current_language, processor,
                                    message_queue, app_history, recv_task>>
       ELSE IF data.type = "get_recent_transcriptions"
       THEN IF "num" \in DOMAIN data.limit
            THEN /\ Len(message_queue) < MaxMessages
                 /\ message_queue' =
                        Append(message_queue,
                               [type |-> "recent_transcriptions",
                                content |-> get_recent(app_history, data.limit.num)])
                 /\ op' = Op("receive_text", data, TRUE)
                 /\ UNCHANGED <<app_current_language, processor, app_history,
                                recv_task>>
            ELSE \* len(self.transcriptions) > limit: int and str do not compare
                 ReceiveRaises(data)
       ELSE IF data.type = "set_speed"
       THEN IF "num" \in DOMAIN data.speed
            THEN \* the turn detector's settings are no state of this model
                 /\ op' = Op("receive_text", data, TRUE)
                 /\ UNCHANGED <<app_current_language, processor, message_queue,
                                app_history, recv_task>>
            ELSE \* speed_value / 100.0: a str is not divided
                 ReceiveRaises(data)
       ELSE /\ op' = Op("receive_text", data, FALSE)
            /\ UNCHANGED <<app_current_language, processor, message_queue,
                           app_history, recv_task>>
    /\ trace' = <<>>
    /\ UNCHANGED <<sessionVars, tasks, endpoint,
                   audio_chunks, callbacks>>

\* process_incoming_data: ws.receive() raises on disconnect, the task ends
Disconnect ==
    /\ recv_task = "running"
    /\ recv_task' = "done"
    /\ op' = Op("disconnect", 0, TRUE)
    /\ trace' = <<>>
    /\ UNCHANGED <<sessionVars, tasks, endpoint,
                   audio_chunks, message_queue,
                   app_current_language, app_history, callbacks, processor>>

\* AudioInputProcessor.process_chunk_queue: the feed task takes one frame
process_chunk_queue ==
    /\ tasks.feed = "running"
    /\ audio_chunks # <<>>
    /\ audio_chunks' = Tail(audio_chunks)
    /\ op' = Op("process_chunk_queue", Head(audio_chunks), TRUE)
    /\ trace' = <<>>
    /\ UNCHANGED <<sessionVars, tasks, endpoint,
                   message_queue, app_current_language,
                   app_history, callbacks, processor, recv_task>>

\* send_text_messages: the send task takes one message and sends it
send_text_messages ==
    /\ tasks.send = "running"
    /\ message_queue # <<>>
    /\ message_queue' = Tail(message_queue)
    /\ op' = Op("send_text_messages", Head(message_queue), TRUE)
    /\ trace' = <<>>
    /\ UNCHANGED <<sessionVars, tasks, endpoint,
                   audio_chunks, app_current_language,
                   app_history, callbacks, processor, recv_task>>

\* TranscriptionHistory.add_transcription: the entry appended (timestamps and
\* the session start are clock readings)
HistoryEntry(text, language, is_final) ==
    [text |-> text, language |-> language, is_final |-> is_final]

\* the recording_state message of on_silence_active
recording_state(silence_active_arg) ==
    [type |-> "recording_state",
     content |-> [is_recording |-> ~silence_active_arg,
                  silence_active |-> silence_active_arg]]

\* TranscriptionCallbacks.on_silence_active
TranscriptionCallbacks_on_silence_active(silence_active_arg) ==
    /\ IF callbacks.silence_active # silence_active_arg
       THEN /\ Len(message_queue) < MaxMessages
            /\ callbacks' = [callbacks EXCEPT !.silence_active = silence_active_arg,
                                              !.is_recording = ~silence_active_arg]
            /\ message_queue' =
                   Append(message_queue, recording_state(silence_active_arg))
            /\ op' = Op("callbacks.on_silence_active", silence_active_arg, TRUE)
       ELSE /\ op' = Op("callbacks.on_silence_active", silence_active_arg, FALSE)
            /\ UNCHANGED <<callbacks, message_queue>>
    /\ trace' = <<>>
    /\ UNCHANGED <<sessionVars, tasks, endpoint,
                   audio_chunks, app_current_language,
                   app_history, processor, recv_task>>

\* TranscriptionCallbacks.on_partial
TranscriptionCallbacks_on_partial(txt) ==
    /\ IF Truthy(txt) /\ txt # <<>> /\ txt # callbacks.last_partial_text
       THEN /\ Len(message_queue) < MaxMessages
            /\ Len(app_history) < MaxAppHistory
            /\ callbacks' = [callbacks EXCEPT !.partial_transcription = txt,
                                              !.last_partial_text = txt]
            /\ app_history' =
                   Append(app_history, HistoryEntry(txt, app_current_language, FALSE))
            /\ message_queue' =
                   Append(message_queue,
                          [type |-> "partial_transcription", content |-> txt,
                           language |-> app_current_language])
            /\ op' = Op("callbacks.on_partial", txt, TRUE)
       ELSE /\ op' = Op("callbacks.on_partial", txt, FALSE)
            /\ UNCHANGED <<callbacks, app_history, message_queue>>
    /\ trace' = <<>>
    /\ UNCHANGED <<sessionVars, tasks, endpoint,
                   audio_chunks, app_current_language, processor,
                   recv_task>>

\* TranscriptionCallbacks.on_final without the test of txt.strip()
TranscriptionCallbacks_on_final_unstripped(txt) ==
    /\ IF Truthy(txt) /\ txt # <<>>
       THEN /\ Len(message_queue) < MaxMessages
            /\ Len(app_history) < MaxAppHistory
            /\ callbacks' = [callbacks EXCEPT !.final_transcription = txt]
            /\ app_history' =
                   Append(app_history, HistoryEntry(txt, app_current_language, TRUE))
            /\ message_queue' =
                   Append(message_queue,
                          [type |-> "final_transcription", content |-> txt,
                           language |-> app_current_language])
            /\ op' = Op("callbacks.on_final", txt, TRUE)
       ELSE /\ op' = Op("callbacks.on_final", txt, FALSE)
            /\ UNCHANGED <<callbacks, app_history, message_queue>>
    /\ trace' = <<>>
    /\ UNCHANGED <<sessionVars, tasks, endpoint,
                   audio_chunks, app_current_language, processor,
                   recv_task>>

\* TranscriptionCallbacks.on_final
TranscriptionCallbacks_on_final(txt) ==
    /\ IF Truthy(txt) /\ txt # <<>> /\ Strip(txt) # <<>>
       THEN /\ Len(message_queue) < MaxMessages
            /\ Len(app_history) < MaxAppHistory
            /\ callbacks' = [callbacks EXCEPT !.final_transcription = txt]
            /\ app_history' =
                   Append(app_history, HistoryEntry(txt, app_current_language, TRUE))
            /\ message_queue' =
                   Append(message_queue,
                          [type |-> "final_transcription", content |-> txt,
                           language |-> app_current_language])
            /\ op' = Op("callbacks.on_final", txt, TRUE)
       ELSE /\ op' = Op("callbacks.on_final", txt, FALSE)
            /\ UNCHANGED <<callbacks, app_history, message_queue>>
    /\ trace' = <<>>
    /\ UNCHANGED <<sessionVars, tasks, endpoint,
                   audio_chunks, app_current_language, processor,
                   recv_task>>

\* setup_audio_callbacks(app, callbacks): every callback slot of the shared
\* processor is assigned the method of this connection's callbacks, in place
\* of what was there
setup_audio_callbacks(proc, connection) ==
    [proc EXCEPT !.callbacks_of = proc.current, !.connection = connection]

\* websocket_endpoint accepting a second connection while the first is at
\* work: it makes queues, callbacks and tasks of its own, and assigns its
\* callbacks to the processor of app.state
websocket_endpoint_second ==
    /\ processor.connection = 1
    /\ processor' = setup_audio_callbacks(processor, 2)
    /\ op' = Op("websocket_endpoint", 2, TRUE)
    /\ trace' = <<>>
    /\ UNCHANGED <<sessionVars, audio_chunks, message_queue,
                   app_current_language, app_history, callbacks, recv_task,
                   tasks, endpoint>>

\* the processor calls its realtime_callback slot: on_partial of the
\* connection whose callbacks are assigned to it. The callbacks of the second
\* connection write to its own queue and to the shared history (after a
\* dedup on a last_partial_text of their own)
realtime_callback(txt) ==
    /\ Truthy(txt) /\ txt # <<>>
    /\ IF processor.connection = 1
       THEN IF txt # callbacks.last_partial_text
            THEN /\ Len(message_queue) < MaxMessages
                 /\ Len(app_history) < MaxAppHistory
                 /\ callbacks' = [callbacks EXCEPT !.partial_transcription = txt,
                                                   !.last_partial_text = txt]
                 /\ app_history' =
                        Append(app_history, HistoryEntry(txt, app_current_language, FALSE))
                 /\ message_queue' =
                        Append(message_queue,
                               [type |-> "partial_transcription", content |-> txt,
                                language |-> app_current_language])
            ELSE UNCHANGED <<callbacks, app_history, message_queue>>
       ELSE /\ \/ UNCHANGED app_history
               \/ /\ Len(app_history) < MaxAppHistory
                  /\ app_history' =
                         Append(app_history, HistoryEntry(txt, app_current_language, FALSE))
            /\ UNCHANGED <<callbacks, message_queue>>
    /\ op' = Op("realtime_callback", txt, processor.connection = 1)
    /\ trace' = <<>>
    /\ UNCHANGED <<sessionVars, tasks, endpoint,
                   audio_chunks, app_current_language, processor,
                   recv_task>>

\* the processor's transcriber calls its full_transcription_callback slot:
\* on_final of the connection whose callbacks are assigned to it
full_transcription_callback(txt) ==
    /\ Truthy(txt) /\ Strip(txt) # <<>>
    /\ Len(app_history) < MaxAppHistory
    /\ app_history' =
           Append(app_history, HistoryEntry(txt, app_current_language, TRUE))
    /\ IF processor.connection = 1
       THEN /\ Len(message_queue) < MaxMessages
            /\ callbacks' = [callbacks EXCEPT !.final_transcription = txt]
            /\ message_queue' =
                   Append(message_queue,
                          [type |-> "final_transcription", content |-> txt,
                           language |-> app_current_language])
       ELSE UNCHANGED <<callbacks, message_queue>>
    /\ op' = Op("full_transcription_callback", txt, processor.connection = 1)
    /\ trace' = <<>>
    /\ UNCHANGED <<sessionVars, tasks, endpoint,
                   audio_chunks, app_current_language, processor,
                   recv_task>>

\* TranscriptionCallbacks.on_recording_start
TranscriptionCallbacks_on_recording_start ==
    /\ Len(message_queue) < MaxMessages
    /\ callbacks' = [callbacks EXCEPT !.is_recording = TRUE]
    /\ message_queue' =
           Append(message_queue,
                  [type |-> "recording_started",
                   content |-> [language |-> app_current_language]])
    /\ op' = Op("callbacks.on_recording_start", 0, TRUE)
    /\ trace' = <<>>
    /\ UNCHANGED <<sessionVars, tasks, endpoint, audio_chunks, app_history,
                   app_current_language, processor, recv_task>>

\* the four tasks of websocket_endpoint: process_incoming_data,
\* process_chunk_queue, send_text_messages, send_transcription_status
TaskNames == {"receive", "feed", "send", "status"}

TaskState(t) == IF t = "receive" THEN recv_task ELSE tasks[t]

AllDone == \A t \in TaskNames : TaskState(t) = "done"

Cancelled_ignored(state) == state

\* `if not task.done(): task.cancel()`: the CancelledError is delivered at
\* the await where the task is suspended
Cancelled(state) == IF state = "done" THEN "done" ELSE "cancel_requested"

\* the task created from the processor of the connection's start feeds that
\* processor for as long as it runs
FeedTaskProcessor == 1

\* send_text_messages: ws.send_json raises on a closed transport; the
\* exception is logged and the send task ends
send_text_messages_raises ==
    /\ tasks.send = "running"
    /\ message_queue # <<>>
    /\ message_queue' = Tail(message_queue)
    /\ tasks' = [tasks EXCEPT !.send = "done"]
    /\ op' = Op("send_text_messages", Head(message_queue), FALSE)
    /\ trace' = <<>>
    /\ UNCHANGED <<sessionVars, audio_chunks, app_current_language, app_history,
                   callbacks, processor, recv_task, endpoint>>

\* send_transcription_status: one status message, every five seconds
send_transcription_status ==
    /\ tasks.status = "running"
    /\ Len(message_queue) < MaxMessages
    /\ message_queue' =
           Append(message_queue,
                  [type |-> "transcription_status",
                   content |-> [language |-> app_current_language,
                                is_recording |-> ~callbacks.silence_active,
                                transcription_count |-> Len(app_history),
                                audio_queue_size |-> 0]])
    /\ op' = Op("send_transcription_status", 0, TRUE)
    /\ trace' = <<>>
    /\ UNCHANGED <<sessionVars, audio_chunks, app_current_language, app_history,
                   callbacks, processor, recv_task, tasks, endpoint>>

\* `except asyncio.CancelledError: pass` of a task whose cancellation was
\* requested: the task ends at its await
TaskCancelled(t) ==
    /\ TaskState(t) = "cancel_requested"
    /\ IF t = "receive"
       THEN recv_task' = "done" /\ UNCHANGED tasks
       ELSE tasks' = [tasks EXCEPT ![t] = "done"] /\ UNCHANGED recv_task
    /\ op' = Op("CancelledError", t, TRUE)
    /\ trace' = <<>>
    /\ UNCHANGED <<sessionVars, audio_chunks, message_queue, app_current_language,
                   app_history, callbacks, processor, endpoint>>

\* websocket_endpoint: asyncio.wait(FIRST_COMPLETED) returns, the pending
\* tasks are cancelled, and the handler awaits them
websocket_endpoint_wait ==
    /\ endpoint = "wait"
    /\ \E t \in TaskNames : TaskState(t) = "done"
    /\ recv_task' = Cancelled(recv_task)
    /\ tasks' = [t \in DOMAIN tasks |-> Cancelled(tasks[t])]
    /\ endpoint' = "gather_pending"
    /\ op' = Op("websocket_endpoint", "wait", TRUE)
    /\ trace' = <<>>
    /\ UNCHANGED <<sessionVars, audio_chunks, message_queue, app_current_language,
                   app_history, callbacks, processor>>

\* websocket_endpoint: gather(*pending) returns once every pending task is
\* done; the finally block cancels every task that is not done and awaits all
websocket_endpoint_finally ==
    /\ endpoint = "gather_pending"
    /\ AllDone
    /\ recv_task' = Cancelled(recv_task)
    /\ tasks' = [t \in DOMAIN tasks |-> Cancelled(tasks[t])]
    /\ endpoint' = "gather_all"
    /\ op' = Op("websocket_endpoint", "finally", TRUE)
    /\ trace' = <<>>
    /\ UNCHANGED <<sessionVars, audio_chunks, message_queue, app_current_language,
                   app_history, callbacks, processor>>

\* websocket_endpoint: gather(*tasks) returns, the session has ended
websocket_endpoint_ended ==
    /\ endpoint = "gather_all"
    /\ AllDone
    /\ endpoint' = "ended"
    /\ op' = Op("websocket_endpoint", "ended", TRUE)
    /\ trace' = <<>>
    /\ UNCHANGED <<sessionVars, audio_chunks, message_queue, app_current_language,
                   app_history, callbacks, processor, recv_task, tasks>>

Init ==
    /\ SessionInit({"en"}, {TRUE}, {TRUE})
    /\ ServerInit
    /\ op = Op("init", 0, TRUE)
    /\ trace = <<>>

\* one utterance after another in one language: partials, silence, the
\* monitor, forced finalization, history
Next ==
    \/ \E text \in PartialTexts, audio \in AudioInputs : on_partial(text, audio)
    \/ \E text \in FinalTexts : enhanced_on_final(text)
    \/ \E s \in {0} \cup {t \in Times_ms : t <= now} : start_silence_detection(s)
    \/ stop_silence_detection
    \/ start_recording
    \/ \E audio \in AudioInputs : stop_recording(audio)
    \/ MonitorPoll
    \/ \E audio \in AudioInputs : force_finalize(audio)
    \/ \E keep_recent \in KeepRecent : clear_history(keep_recent)
    \/ Tick

Spec == Init /\ [][Next]_vars

\* the receive loop of one connection with its two queues and their consumers
ServerNext ==
    \/ \E raw \in RawMessages : ReceiveBinary(raw)
    \/ \E data \in TextMessages : ReceiveText(data)
    \/ Disconnect
    \/ process_chunk_queue
    \/ send_text_messages

ServerSpec == Init /\ [][ServerNext]_vars

\* a session constructed with any source_language, fed partial events in the
\* two languages and in both, finalized by force_finalize, and switched by hand
LangInit ==
    /\ SessionInit(SourceLanguages, {TRUE}, {FALSE})
    /\ ServerInit
    /\ op = Op("init", 0, TRUE)
    /\ trace = <<>>

LangNext ==
    \/ \E text \in LanguageTexts : on_partial(text, NoAudio)
    \/ force_finalize(NoAudio)
    \/ \E keep_recent \in KeepRecent : clear_history(keep_recent)
    \/ \E new_language \in LanguageArgs : switch_language(new_language)

LangSpec == LangInit /\ [][LangNext]_vars

\* the two ways to ask for a language: switch_language on the session and the
\* change_language message on the connection
ControlNext ==
    \/ \E new_language \in LanguageArgs : switch_language(new_language)
    \/ \E data \in TextMessages : ReceiveText(data)
    \/ send_text_messages

ControlSpec == LangInit /\ [][ControlNext]_vars

\* the partial events of one utterance, the recognizer's silence events, the
\* clock and the monitor thread, which runs as long as the session is not shut
\* down
SilenceNext ==
    \/ \E text \in UtteranceTexts : on_partial(text, NoAudio)
    \/ \E s \in {0} \cup {t \in Times_ms : t <= now} : start_silence_detection(s)
    \/ stop_silence_detection
    \/ MonitorPoll
    \/ Tick

FairSpec == Init /\ [][SilenceNext]_vars /\ WF_vars(MonitorPoll)

\* the handlers of a final text: enhanced_on_final, which the recorder calls,
\* on_final of _create_recorder as a caller of it would run it, and the
\* server's callback, each with the texts a recognizer delivers
FinalNext ==
    \/ \E text \in FinalTexts : enhanced_on_final(text)
    \/ \E text \in FinalTexts : on_final(text, NoAudio)
    \/ \E txt \in FinalTexts \ {None} : TranscriptionCallbacks_on_final(txt)
    \/ \E txt \in {T_hel, T_hello_wor} : TranscriptionCallbacks_on_partial(txt)
    \/ \E keep_recent \in KeepRecent : clear_history(keep_recent)
    \/ send_text_messages

FinalSpec == Init /\ [][FinalNext]_vars

\* the receive loop with text messages of every kind, the server's final
\* callback, which fills the server history, and the send task
TextNext ==
    \/ \E data \in TextMessages \cup FieldMessages : ReceiveText(data)
    \/ \E txt \in {T_hel, T_hello_wor} : TranscriptionCallbacks_on_final(txt)
    \/ send_text_messages

TextSpec == Init /\ [][TextNext]_vars

\* partial events with mixed-script texts of two and three words, manual
\* switches, and the start of a recording, which resets the dedup
MixedNext ==
    \/ \E text \in MixedTexts : on_partial(text, NoAudio)
    \/ \E new_language \in LANGUAGE_MODELS : switch_language(new_language)
    \/ start_recording

MixedSpec == LangInit /\ [][MixedNext]_vars

\* one connection from its start to its end: the four tasks at work, the ways
\* a task ends by itself, and the handler's wait, cancel and gather; the event
\* loop runs every callback that is ready
ConnNext ==
    \/ \E raw \in {RawShort, RawA} : ReceiveBinary(raw)
    \/ \E data \in {[type |-> "ping"], [non_object |-> "array"],
                    [type |-> "change_language", language |-> "hi"]} :
           ReceiveText(data)
    \/ Disconnect
    \/ process_chunk_queue
    \/ send_text_messages
    \/ send_text_messages_raises
    \/ send_transcription_status
    \/ \E t \in TaskNames : TaskCancelled(t)
    \/ websocket_endpoint_wait
    \/ websocket_endpoint_finally
    \/ websocket_endpoint_ended

ConnSpec ==
    /\ Init
    /\ [][ConnNext]_vars
    /\ WF_vars(websocket_endpoint_wait)
    /\ WF_vars(websocket_endpoint_finally)
    /\ WF_vars(websocket_endpoint_ended)
    /\ \A t \in TaskNames : WF_vars(TaskCancelled(t))

\* histories as a caller may assign them, exported with every combination of
\* arguments, and cleared
ExportInit ==
    /\ SessionInitWith({"en"}, {TRUE}, {TRUE}, ExportHistories)
    /\ ServerInit
    /\ op = Op("init", 0, TRUE)
    /\ trace = <<>>

ExportNext ==
    \/ \E args \in ExportArgs : export_transcriptions(args)
    \/ \E keep_recent \in 0..MaxExportHistory : clear_history(keep_recent)

ExportSpec == ExportInit /\ [][ExportNext]_vars

\* a session with an export path: partial texts, one of which no export can
\* write, every way to finalize (the monitor, force_finalize, on_final), and
\* clear_history with every keep_recent up to the longest history
HistoryNext ==
    \/ \E text \in {T_hello_wor, T_surrogate} : on_partial(text, NoAudio)
    \/ start_silence_detection(0)
    \/ Tick
    \/ MonitorPoll
    \/ force_finalize(NoAudio)
    \/ on_final(T_hello, NoAudio)
    \/ \E keep_recent \in 0..MaxHistory : clear_history(keep_recent)

HistorySpec == Init /\ [][HistoryNext]_vars

\* the receive loop with binary messages of every shape and the feed task,
\* which empties the queue
FrameNext ==
    \/ \E raw \in FrameMessages : ReceiveBinary(raw)
    \/ process_chunk_queue
    \/ Disconnect

FrameSpec == Init /\ [][FrameNext]_vars

\* estimate_confidence on texts and audio buffers of every kind, in a session
\* of any language
ConfidenceNext ==
    \/ \E text \in ConfidenceTexts, audio_data \in ConfidenceAudio :
           call_estimate_confidence(text, audio_data)
    \/ \E new_language \in LANGUAGE_MODELS : switch_language(new_language)

ConfidenceSpec == LangInit /\ [][ConfidenceNext]_vars

\* is_similar on every pair of the texts and every threshold
SimilarityNext ==
    \E text1 \in SimilarityTexts, text2 \in SimilarityTexts,
       threshold \in SimilarityThresholds :
        call_is_similar(text1, text2, threshold)

SimilaritySpec == Init /\ [][SimilarityNext]_vars

\* a session that is fed audio and shut down, at any point of an utterance,
\* with an empty history or a filled one
ShutdownNext ==
    \/ \E text \in {T_hel, T_hello_wor} : on_partial(text, NoAudio)
    \/ force_finalize(NoAudio)
    \/ \E chunk \in AudioChunks, recorder_raises \in BOOLEAN :
           feed_audio(chunk, recorder_raises)
    \/ shutdown

ShutdownSpec == Init /\ [][ShutdownNext]_vars

\* the recorder's callbacks with observers that may raise
CallbackNext ==
    \/ \E text \in PartialTexts : on_partial(text, NoAudio)
    \/ \E text \in PartialTexts : on_partial_callback_raises(text, NoAudio)
    \/ start_recording
    \/ start_recording_callback_raises
    \/ start_silence_detection(0)
    \/ stop_silence_detection
    \/ force_finalize(NoAudio)

CallbackSpec == Init /\ [][CallbackNext]_vars

\* silence notifications in any order and with any repeats: the recorder's
\* turn-detection events at the session, on_silence_active at the server's
\* callbacks, and the send task that empties the message queue
NotifyNext ==
    \/ start_silence_detection(0)
    \/ stop_silence_detection
    \/ start_recording
    \/ \E silence_active_arg \in BOOLEAN :
           TranscriptionCallbacks_on_silence_active(silence_active_arg)
    \/ send_text_messages
    \/ Tick

NotifySpec == Init /\ [][NotifyNext]_vars

\* partial events of one utterance after another: texts that extend, repeat
\* or differ by their end mark, and the recording and silence events between
DedupNext ==
    \/ \E text \in PartialTexts \cup UtteranceTexts \cup {T_en3} :
           on_partial(text, NoAudio)
    \/ start_recording
    \/ start_silence_detection(0)
    \/ stop_silence_detection
    \/ Tick

DedupSpec == Init /\ [][DedupNext]_vars

\* the recorder's thread with the events that start and end the watch for
\* silence (partial text, silence start and stop, recording start), and the
\* monitor thread, whose check and finalization are separate steps
WatchNext ==
    \/ \E text \in {T_hel, T_hello_wor} : on_partial(text, NoAudio)
    \/ \E s \in {0} \cup {t \in Times_ms : t <= now} : start_silence_detection(s)
    \/ stop_silence_detection
    \/ start_recording
    \/ _finalize_current_transcription_detect
    \/ _finalize_current_transcription_append
    \/ Tick

WatchSpec == Init /\ [][WatchNext]_vars

\* the recorder's thread delivering partial texts of one and of two words, and
\* the monitor thread building its result argument by argument
ResultNext ==
    \/ \E text \in {T_hel, T_hello_wor} : on_partial(text, NoAudio)
    \/ start_silence_detection(0)
    \/ _finalize_current_transcription_detect
    \/ _finalize_current_transcription_text
    \/ _finalize_current_transcription_word_count
    \/ Tick

ResultSpec == Init /\ [][ResultNext]_vars

\* utterances of different texts finalized by the monitor into a history of
\* capacity EvictionCapacity
EvictionNext ==
    \/ \E text \in {T_hel, T_en3} : on_partial(text, NoAudio)
    \/ start_silence_detection(0)
    \/ MonitorPoll_EvictionCapacity
    \/ Tick

EvictionSpec == Init /\ [][EvictionNext]_vars

\* histories as a caller may assign them, exported to a path that holds a
\* file or none, with every combination of arguments
PathNext ==
    \/ \E args \in ExportArgs, before \in PathContents :
           export_transcriptions_to_path(args, before)
    \/ \E keep_recent \in 0..MaxExportHistory : clear_history(keep_recent)

PathSpec == ExportInit /\ [][PathNext]_vars

\* partial events and final events, the latter through enhanced_on_final,
\* which the recorder calls, and through on_final of _create_recorder
TimingNext ==
    \/ \E text \in PartialTexts : on_partial(text, NoAudio)
    \/ \E text \in FinalTexts : enhanced_on_final(text)
    \/ \E text \in FinalTexts : on_final(text, NoAudio)
    \/ start_recording

TimingSpec == Init /\ [][TimingNext]_vars

\* the shared processor delivering partial and final texts while the first
\* connection is open, a second connection is opened, and the first changes
\* the language
SharedNext ==
    \/ websocket_endpoint_second
    \/ \E txt \in {T_hel, T_hello_wor} : realtime_callback(txt)
    \/ full_transcription_callback(T_hello_wor)
    \/ \E data \in {[type |-> "change_language", language |-> "hi"]} :
           ReceiveText(data)
    \/ send_text_messages
    \/ Disconnect

SharedSpec == Init /\ [][SharedNext]_vars

\* one utterance after another, seen by the session (recording start and
\* partial events, one of them an end mark alone) and by the connection's
\* callbacks (recording start and partial texts, sent on to the client)
UtteranceNext ==
    \/ \E text \in {T_hel, T_hello_wor, T_mark} : on_partial(text, NoAudio)
    \/ start_recording
    \/ \E txt \in {T_hel, T_hello_wor} : TranscriptionCallbacks_on_partial(txt)
    \/ TranscriptionCallbacks_on_recording_start
    \/ send_text_messages

UtteranceSpec == Init /\ [][UtteranceNext]_vars

\* a session at work that is shut down by its owner while the monitor thread
\* runs: the monitor's check and its finalization are separate steps
StopNext ==
    \/ \E text \in {T_hel, T_hello_wor} : on_partial(text, NoAudio)
    \/ start_silence_detection(0)
    \/ _finalize_current_transcription_detect
    \/ _finalize_current_transcription_append
    \/ shutdown
    \/ Tick

StopSpec == Init /\ [][StopNext]_vars

\* the recorder's thread, which delivers partial events and silence events,
\* and the monitor thread, whose finalization is taken statement by statement
ThreadNext ==
    \/ \E text \in {T_en3, T_hi3} : on_partial(text, NoAudio)
    \/ start_silence_detection(0)
    \/ _finalize_current_transcription_detect
    \/ _finalize_current_transcription_append
    \/ Tick

ThreadSpec == Init /\ [][ThreadNext]_vars

(***************************************************************************)
(* Properties                                                              *)
(***************************************************************************)

\* C1: the depth of the audio queue never exceeds MAX_AUDIO_QUEUE_SIZE: a
\* binary message with a full header is put on the queue exactly when the
\* depth is below the capacity, otherwise it is dropped, and in both cases the
\* receive loop keeps running.
C1_AudioQueueBounded ==
    /\ [](Len(audio_chunks) <= MAX_AUDIO_QUEUE_SIZE)
    /\ [][(op'.name = "receive_binary" /\ Len(op'.arg) >= 8) =>
            /\ op'.ret = (Len(audio_chunks) < MAX_AUDIO_QUEUE_SIZE)
            /\ IF Len(audio_chunks) < MAX_AUDIO_QUEUE_SIZE
               THEN /\ Len(audio_chunks') = Len(audio_chunks) + 1
                    /\ SubSeq(audio_chunks', 1, Len(audio_chunks)) = audio_chunks
                    /\ audio_chunks'[Len(audio_chunks')].pcm =
                           SubSeq(op'.arg, 9, Len(op'.arg))
               ELSE audio_chunks' = audio_chunks
            /\ recv_task' = "running"]_vars

\* a frame with a full header arrived at a full queue and was dropped
C1_Witness ==
    /\ op.name = "receive_binary"
    /\ Len(op.arg) >= 8
    /\ op.ret = FALSE
    /\ Len(audio_chunks) = MAX_AUDIO_QUEUE_SIZE

\* C2: a binary message shorter than 8 bytes is rejected without raising:
\* nothing is put on the audio queue, no state of the session or of the
\* connection changes, and the receive loop is still running.
C2_ShortFrameRejected ==
    [][(op'.name = "receive_binary" /\ Len(op'.arg) < 8) =>
          /\ op'.ret = FALSE
          /\ audio_chunks' = audio_chunks
          /\ UNCHANGED <<sessionVars, serverVars, monitor>>
          /\ recv_task' = "running"]_vars

\* the 5-byte message was received while frames were queued
C2_Witness ==
    /\ op.name = "receive_binary"
    /\ op.arg = RawShort
    /\ audio_chunks # <<>>
    /\ recv_task = "running"

\* C3: the length of the session's transcription history never exceeds
\* _TRANSCRIPTION_CACHE_SIZE.
C3_HistoryWithinCapacity ==
    Len(transcription_history) <= _TRANSCRIPTION_CACHE_SIZE

\* C4: a recognizer final event with a non-empty text has appended exactly
\* one result with is_final = true and that text to the history and then
\* called the full-transcription callback exactly once, with that result.
C4_FinalEventRecorded ==
    (op.name = "on_final" /\ Truthy(op.arg) /\ Strip(op.arg) # <<>>) =>
        /\ Len(trace) >= 2
        /\ trace[1][1] = "history.append"
        /\ trace[1][2].is_final
        /\ trace[1][2].text = op.arg
        /\ trace[2][1] = "full_transcription_callback"
        /\ trace[2][2] = trace[1][2]
        /\ \A i \in 3..Len(trace) :
               trace[i][1] \notin {"history.append", "full_transcription_callback"}

\* C5: a final text that is None, empty or whitespace-only is discarded by
\* the session's handlers and by the server's callback: no callback is made,
\* the history and the auto-save counter are unchanged, and no message and no
\* server history entry is produced.
C5_EmptyFinalDiscarded ==
    [][(/\ op'.name \in {"on_final", "callbacks.on_final"}
        /\ (~Truthy(op'.arg) \/ Strip(op'.arg) = <<>>)) =>
          /\ op'.ret = FALSE
          /\ trace' = <<>>
          /\ transcription_history' = transcription_history
          /\ auto_save_counter' = auto_save_counter
          /\ message_queue' = message_queue
          /\ app_history' = app_history
          /\ callbacks' = callbacks]_vars

\* the server's callback received " " with results in the history and
\* messages waiting
C5_Witness ==
    /\ op.name = "callbacks.on_final"
    /\ op.arg = T_space
    /\ op.ret = FALSE
    /\ transcription_history # <<>>
    /\ message_queue # <<>>

\* C6: once the monitor has finalized, a further poll with no event in
\* between does not finalize again.
C6_OneFinalPerSilenceWindow ==
    [][~(op.name = "monitor" /\ op'.name = "monitor")]_vars

\* silence has started, a partial text exists, and the time is past
\* silence_start + silence_duration - pipeline_latency - reserve
C7_Pending ==
    /\ recorder
    /\ ~shutdown_performed
    /\ silence_time # 0
    /\ Truthy(realtime_text)
    /\ now > silence_time + post_speech_silence_duration
                 - PIPELINE_LATENCY - _PIPELINE_RESERVE_TIME_MS

\* the monitor has just appended and delivered a final result with the
\* current partial text
C7_Finalized ==
    /\ op.name = "monitor"
    /\ Len(trace) >= 2
    /\ trace[1][1] = "history.append"
    /\ trace[1][2].is_final
    /\ trace[1][2].text = realtime_text
    /\ trace[2][1] = "full_transcription_callback"
    /\ trace[2][2].text = realtime_text
    /\ transcription_history # <<>>
    /\ transcription_history[Len(transcription_history)].text = realtime_text

\* C7: the partial text the session holds is the one received last, emitted
\* or not; and when silence has started with a partial text, then once the
\* deadline has passed the monitor finalizes with that text, unless a further
\* event ends the wait first.
C7_SilenceFinalizes ==
    /\ []((op.name = "on_partial" /\ Truthy(op.arg)) => realtime_text = op.arg)
    /\ (C7_Pending ~> (C7_Finalized \/ ~C7_Pending))

\* the monitor finalized "hello wor!", whose emission the dedup suppressed
\* after "hello wor"
C7_Witness ==
    /\ op.name = "monitor"
    /\ op.arg = T_hello_wor_bang
    /\ _last_partial_text = T_hello_wor
    /\ transcription_history # <<>>
    /\ transcription_history[Len(transcription_history)].text = T_hello_wor_bang

\* C8: switch_language with a target outside the registry returns False and
\* leaves current_language, the recorder's language and the observer alone;
\* a change_language message naming an unsupported language changes nothing.
C8_InvalidLanguageRejected ==
    [][/\ (op'.name = "switch_language" /\ op'.arg \notin {"en", "hi", "hi-en"}) =>
             /\ op'.ret = FALSE
             /\ current_language' = current_language
             /\ recorder_language' = recorder_language
             /\ trace' = <<>>
       /\ (/\ op'.name = "receive_text"
           /\ op'.arg.type = "change_language"
           /\ op'.arg.language \notin {"en", "hi", "hi-en", "missing"}) =>
             /\ op'.ret = FALSE
             /\ UNCHANGED <<sessionVars, serverVars, monitor>>]_vars

\* switch_language("fr") was refused by a session in code-switch mode after
\* the server had changed its language
C8_Witness ==
    /\ op.name = "switch_language"
    /\ op.arg = "fr"
    /\ op.ret = FALSE
    /\ current_language = "hi-en"
    /\ app_current_language = "hi"

\* C9: current_language is a key of the language registry.
C9_LanguageInRegistry ==
    current_language \in {"en", "hi", "hi-en"}

C11_MixedScriptSwitches ==
    [][(/\ op'.name = "on_partial"
        /\ Truthy(op'.arg)
        /\ auto_language_switching
        /\ \E c \in Chars(op'.arg) : IsLatin(c)
        /\ \E c \in Chars(op'.arg) : IsDevanagari(c) \/ IsOtherIndic(c)
        /\ current_language # "hi-en") =>
          current_language' = "hi-en"]_vars

\* a text message the server has nothing to do with: invalid JSON (parsed to
\* a dictionary without type), an unknown type, a JSON value that is no
\* object, or a speed or limit that is no number
C12_Invalid(data) ==
    \/ "non_object" \in DOMAIN data
    \/ /\ "type" \in DOMAIN data
       /\ \/ data.type \notin {"clear_history", "change_language", "export_request",
                               "get_recent_transcriptions", "set_speed"}
          \/ data.type = "set_speed" /\ "num" \notin DOMAIN data.speed
          \/ data.type = "get_recent_transcriptions" /\ "num" \notin DOMAIN data.limit

\* C12: an invalid text message is dropped: nothing of the connection or the
\* session changes and the receive task keeps running.
C12_InvalidTextDropped ==
    [][(op'.name = "receive_text" /\ C12_Invalid(op'.arg)) =>
          /\ recv_task' = "running"
          /\ UNCHANGED <<sessionVars, audio_chunks, message_queue,
                         app_current_language, app_history, callbacks, processor>>]_vars

\* C13: once a task of the connection has finished, the handler cancels the
\* others (no task runs while the handler is past its wait), the handler ends
\* only with all four tasks done, and a connection with a finished task does
\* come to its end with no task left.
C13_TasksEndWithConnection ==
    /\ [](endpoint # "wait" => \A t \in TaskNames : TaskState(t) # "running")
    /\ [](endpoint = "ended" => AllDone)
    /\ ((\E t \in TaskNames : TaskState(t) = "done") ~> (endpoint = "ended" /\ AllDone))

C13_Witness ==
    /\ endpoint = "ended"
    /\ AllDone
    /\ op.name = "websocket_endpoint"

\* C14: the processor that the feed task feeds is not shut down while the
\* feed task runs.
C14_NoShutdownUnderFeed ==
    tasks.feed = "running" => FeedTaskProcessor \notin processor.shut_down

\* C15: the recorder's thread does not run on_partial, which writes
\* realtime_text, current_confidence and current_language, while the monitor
\* thread is inside _finalize_current_transcription, which reads them.
C15_MutualExclusion ==
    [][op'.name = "on_partial" /\ Truthy(op'.arg) => monitor.pc = "idle"]_vars

\* C16: export_transcriptions raises nothing, and returns False whenever the
\* path is unusable, the file system refuses, or a text cannot be written.
C16_ExportNeverRaises ==
    [][op'.name = "export_transcriptions" =>
          /\ \A i \in 1..Len(trace') : trace'[i][1] # "raise"
          /\ ExportBody(transcription_history, op'.arg).raises => ~op'.ret
          /\ ~ExportBody(transcription_history, op'.arg).raises => op'.ret]_vars

C16_Witness ==
    /\ op.name = "export_transcriptions"
    /\ ~op.ret
    /\ \/ op.arg.io_fails
       \/ "none" \in DOMAIN op.arg.path
       \/ \E i \in 1..Len(transcription_history) :
              transcription_history[i].text = T_surrogate

\* C17: a JSON export with the final-only filter that succeeds, read back,
\* gives the (text, language, is_final) of the final entries of the history,
\* in order, and of no other entry.
C17_FinalOnlyRoundTrip ==
    [][(/\ op'.name = "export_transcriptions"
        /\ op'.ret
        /\ op'.arg.format = "json"
        /\ op'.arg.filter_final_only) =>
          LET final == SelectFinal(transcription_history)
          IN  /\ Len(trace') = 1
              /\ trace'[1][1] = "write"
              /\ JsonLoadTranscriptions(trace'[1][2]) =
                     [i \in 1..Len(final) |->
                         <<final[i].text, final[i].language, final[i].is_final>>]]_vars

C17_Witness ==
    /\ op.name = "export_transcriptions"
    /\ op.ret
    /\ op.arg.format = "json"
    /\ op.arg.filter_final_only
    /\ \E i, j \in 1..Len(transcription_history) :
          /\ ~transcription_history[i].is_final
          /\ transcription_history[j].is_final
          /\ transcription_history[j].text \in {T_quote, T_backslash_n}

C18_Finalized(o) ==
    \/ o.name = "monitor"
    \/ o.name = "force_finalize" /\ o.ret
    \/ o.name = "on_final" /\ o.ret

C18_ExportAttempts(t) ==
    Cardinality({i \in 1..Len(t) : t[i][1] = "export_transcriptions"})

C19_ClearKeepsRecent ==
    [][op'.name = "clear_history" =>
          LET n == op'.arg
              kept == IF n < Len(transcription_history)
                      THEN n ELSE Len(transcription_history)
          IN  /\ Len(transcription_history') = kept
              /\ \A i \in 1..kept :
                    transcription_history'[i] =
                        transcription_history[Len(transcription_history) - kept + i]
              /\ auto_save_counter' = 0]_vars

C19_Witness ==
    /\ op.name = "clear_history"
    /\ op.arg = 2
    /\ Len(transcription_history) = 2
    /\ transcription_history[1] # transcription_history[2]

\* C20: a change_language message that names a supported language shuts the
\* current processor down, makes a new one for that language the current one,
\* binds the connection's callbacks to it, and puts exactly one
\* language_changed message with that language at the end of the queue, so
\* that successive changes are confirmed in the order of the requests.
C20_LanguageChangeConfirmed ==
    [][(/\ op'.name = "receive_text"
        /\ "type" \in DOMAIN op'.arg
        /\ op'.arg.type = "change_language"
        /\ op'.arg.language \in SUPPORTED_LANGUAGES) =>
          /\ processor.current \in processor'.shut_down
          /\ processor'.current \notin processor'.shut_down \cup {processor.current}
          /\ processor'.language = op'.arg.language
          /\ processor'.callbacks_of = processor'.current
          /\ app_current_language' = op'.arg.language
          /\ message_queue' =
                 Append(message_queue,
                        [type |-> "language_changed", content |-> op'.arg.language])]_vars

C20_Witness ==
    /\ op.name = "receive_text"
    /\ "type" \in DOMAIN op.arg
    /\ op.arg.type = "change_language"
    /\ op.arg.language = "hi-en"
    /\ message_queue = << [type |-> "language_changed", content |-> "hi"],
                          [type |-> "language_changed", content |-> "hi-en"] >>
    /\ processor.language = "hi-en"

\* C21: the frame put on the queue for a binary message of 8 bytes or more
\* determines the triple the message encodes (timestamp, flags word, PCM
\* bytes): no message with another triple gives the same frame.
C21_FrameRecoversTriple ==
    (op.name = "receive_binary" /\ op.ret) =>
        \A other \in FrameMessages :
            (Len(other) >= 8 /\ FrameMetadata(other) = audio_chunks[Len(audio_chunks)])
                => EncodedTriple(other) = EncodedTriple(op.arg)

\* C22: a binary message never leaves the receive task waiting; one that
\* arrives while the queue holds MAX_AUDIO_QUEUE_SIZE frames is dropped and
\* the queue keeps the frames it held, one that arrives earlier goes to the
\* end of the queue, and the feed task takes the frames from the front.
C22_NewestDropped ==
    /\ [][op'.name = "receive_binary" => recv_task' = "running"]_vars
    /\ [][(op'.name = "receive_binary" /\ Len(op'.arg) >= 8) =>
             IF Len(audio_chunks) < MAX_AUDIO_QUEUE_SIZE
             THEN audio_chunks' = Append(audio_chunks, FrameMetadata(op'.arg))
             ELSE audio_chunks' = audio_chunks /\ ~op'.ret]_vars
    /\ [][op'.name = "process_chunk_queue" =>
             /\ audio_chunks # <<>>
             /\ op'.arg = Head(audio_chunks)
             /\ audio_chunks' = Tail(audio_chunks)]_vars
    /\ [](Len(audio_chunks) <= MAX_AUDIO_QUEUE_SIZE)

C22_Witness ==
    /\ op.name = "receive_binary"
    /\ ~op.ret
    /\ Len(op.arg) >= 8
    /\ Len(audio_chunks) = MAX_AUDIO_QUEUE_SIZE
    /\ audio_chunks[1] # audio_chunks[2]
    /\ \A i \in 1..Len(audio_chunks) : audio_chunks[i] # FrameMetadata(op.arg)

\* C23: estimate_confidence returns a value between 0 and 1, and 0 for a
\* text that is missing, empty or blank.
C23_ConfidenceBounds ==
    [][op'.name = "estimate_confidence" =>
          /\ trace'[1][2] \in 0..CONF_ONE
          /\ (~Truthy(op'.arg.text) \/ \A i \in 1..Len(op'.arg.text) :
                                            IsSpace(op'.arg.text[i]))
                => trace'[1][2] = 0]_vars

C23_Witness ==
    /\ op.name = "estimate_confidence"
    /\ op.arg.text = T_a51
    /\ op.arg.audio_data = QuietAudio
    /\ trace[1][2] > 0
    /\ trace[1][2] < CONF_ONE

\* C24: is_similar of a non-empty text with itself is true at every
\* threshold from 0 to 1, and is_similar("hello world", "hello world!!", 0.8)
\* is true.
C24_SimilarReflexive ==
    [][op'.name = "is_similar" =>
          /\ (Truthy(op'.arg.text1) /\ op'.arg.text1 = op'.arg.text2) => op'.ret
          /\ (/\ op'.arg.text1 = T_hello_world
              /\ op'.arg.text2 = T_hello_world_bangs
              /\ op'.arg.threshold = 80) => op'.ret]_vars

C24_Witness ==
    /\ op.name = "is_similar"
    /\ op.arg.text1 = T_eight
    /\ op.arg.text2 = T_eight
    /\ op.arg.threshold = 100
    /\ op.ret

\* C25: once shutdown has been performed, a feed_audio call does nothing: the
\* recorder's feed_audio is not invoked, no exception reaches the caller, and
\* the session's state is as it was.
C25_FeedAfterShutdownNoOp ==
    [][(op'.name = "feed_audio" /\ shutdown_performed) =>
          /\ \A i \in 1..Len(trace') :
                 trace'[i][1] \notin {"recorder.feed_audio", "raise"}
          /\ UNCHANGED sessionVars]_vars

C25_Witness ==
    /\ op.name = "feed_audio"
    /\ shutdown_performed
    /\ recorder
    /\ trace = <<>>

\* C26: an exception raised while a recorder callback runs (by the observer
\* it calls) is caught inside the callback: no exception leaves on_partial or
\* start_recording towards the recorder.
C26_CallbackExceptionsCaught ==
    [][op'.name \in {"on_partial", "start_recording"} =>
          \A i \in 1..Len(trace') : trace'[i][1] # "raise"]_vars

\* C27: a silence start or stop notification sets the silence flag and produces
\* a side effect (the silence callback of the session, the recording_state
\* message of the server's callbacks) only when the value differs from the
\* current one; a notification that repeats the one before it produces none.
C27_SideEffectOnlyOnChange ==
    /\ [][op'.name = "start_silence_detection" =>
             /\ silence_active'
             /\ trace' = IF silence_active THEN <<>>
                         ELSE << <<"silence_active_callback", TRUE>> >>]_vars
    /\ [][op'.name = "stop_silence_detection" =>
             /\ ~silence_active'
             /\ trace' = IF silence_active
                         THEN << <<"silence_active_callback", FALSE>> >>
                         ELSE <<>>]_vars
    /\ [][op'.name = "callbacks.on_silence_active" =>
             /\ callbacks'.silence_active = op'.arg
             /\ IF callbacks.silence_active = op'.arg
                THEN callbacks' = callbacks /\ message_queue' = message_queue
                ELSE message_queue' =
                         Append(message_queue, recording_state(op'.arg))]_vars
    /\ [][(/\ op'.name \in {"start_silence_detection", "stop_silence_detection"}
           /\ op.name = op'.name) => trace' = <<>>]_vars
    /\ [][(/\ op'.name = "callbacks.on_silence_active"
           /\ op.name = op'.name
           /\ op.arg = op'.arg) => message_queue' = message_queue]_vars

C27_Witness ==
    /\ op.name = "start_silence_detection"
    /\ trace = <<>>
    /\ silence_active
    /\ ~callbacks.silence_active
    /\ message_queue = << recording_state(FALSE) >>

\* C28: a non-empty partial always becomes the current partial text. When it is
\* judged similar to the last emitted partial, neither the real-time callback
\* nor the confidence callback is called and the last emitted text stays; when
\* it is not, each callback is called once, with the new text, and the last
\* emitted text becomes the new text without its ending punctuation.
C28_DedupSuppressesEmission ==
    [][(op'.name = "on_partial" /\ Truthy(op'.arg)) =>
          LET stripped_text == strip_ending_punctuation(op'.arg)
              calls(label) == {i \in 1..Len(trace') : trace'[i][1] = label}
          IN  /\ realtime_text' = op'.arg
              /\ IF is_similar(_last_partial_text, stripped_text,
                               _SIMILARITY_THRESHOLD)
                 THEN /\ calls("realtime_transcription_callback") = {}
                      /\ calls("confidence_callback") = {}
                      /\ _last_partial_text' = _last_partial_text
                 ELSE /\ Cardinality(calls("realtime_transcription_callback")) = 1
                      /\ Cardinality(calls("confidence_callback")) = 1
                      /\ \A i \in calls("realtime_transcription_callback") :
                             trace'[i][2].text = op'.arg
                      /\ _last_partial_text' = stripped_text]_vars

C28_Witness ==
    /\ op.name = "on_partial"
    /\ op.arg = T_hello_wor_bang
    /\ ~op.ret
    /\ realtime_text = T_hello_wor_bang
    /\ _last_partial_text = T_hello_wor
    /\ trace = <<>>

\* C28 as stated: after an emitted partial the last emitted text is the new
\* text itself.
C28_LastEmittedIsNewText ==
    [][(op'.name = "on_partial" /\ op'.ret) => _last_partial_text' = op'.arg]_vars

\* C29: after a recording-start event the current partial text is empty, the
\* current confidence is reset and the last emitted text is empty.
C29_RecordingStartResets ==
    [][op'.name = "start_recording" =>
          /\ ~Truthy(realtime_text')
          /\ current_confidence' = 0
          /\ _last_partial_text' = <<>>]_vars

\* C30: the monitor's finalization takes place only in a state where the
\* silence start is not zero, the partial text is not empty and the time since
\* the silence start exceeds post_speech_silence_duration less the pipeline
\* latency and the reserve; never after a silence stop or a recording start
\* has set the silence start to zero, and never before the deadline.
C30_FinalizesOnlyWhileWatching ==
    [][(/\ op'.name = "_finalize_current_transcription"
        /\ op'.arg = "append") =>
          /\ silence_time # 0
          /\ Truthy(realtime_text)
          /\ now - silence_time >
                 post_speech_silence_duration - PIPELINE_LATENCY
                     - _PIPELINE_RESERVE_TIME_MS]_vars


\* C31: after every successful switch_language to a language different from
\* the current one, with a recorder present, the recorder's language
\* parameter is the registry's recognizer code of the new language ("en",
\* "hi", none for "hi-en") and the language observer was called exactly once,
\* with the new language.
C31_RecorderFollowsSwitch ==
    [][(/\ op'.name = "switch_language"
        /\ op'.ret
        /\ current_language' # current_language
        /\ recorder)
       => /\ recorder_language' =
                 (IF current_language' = "hi-en" THEN "" ELSE current_language')
          /\ Len(SelectSeq(trace', LAMBDA e : e[1] = "language_detection_callback")) = 1
          /\ \E i \in 1..Len(trace') :
                 trace'[i] = <<"language_detection_callback", current_language'>>]_vars


\* C32: every TranscriptionResult appended to the history or handed to a
\* callback has word_count equal to the number of whitespace-delimited tokens
\* of its text (0 for an empty text).
C32_Counted(result) ==
    result.word_count = IF Truthy(result.text) THEN Len(Split(result.text)) ELSE 0

C32_WordCountMatchesText ==
    /\ \A i \in 1..Len(transcription_history) : C32_Counted(transcription_history[i])
    /\ \A i \in 1..Len(trace) :
           trace[i][1] \in {"history.append", "full_transcription_callback",
                            "realtime_transcription_callback"}
               => C32_Counted(trace[i][2])


\* C33: when an append makes the history longer than its capacity, the
\* oldest half of the entries is evicted in that step, and the entries that
\* remain are the most recent ones in insertion order.
C33_Appended == Len(transcription_history) + 1

C33_OldestHalfEvicted ==
    [][(/\ op'.name = "monitor"
        /\ op'.ret
        /\ C33_Appended > EvictionCapacity)
       => /\ Len(transcription_history') <= C33_Appended - (C33_Appended \div 2)
          /\ \A i \in 1..Len(transcription_history') :
                 transcription_history'[i] =
                     Append(transcription_history, trace'[1][2])
                         [C33_Appended - Len(transcription_history') + i]]_vars


\* C34: export_transcriptions writes atomically: in the course of a call the
\* path holds either what it held before or the complete new file, and after
\* a call that fails it holds what it held before.
C34_Before == trace[1][2]

C34_Complete ==
    ExportFile(ExportData(transcription_history, op.arg.filter_final_only),
               op.arg.format, op.arg.include_metadata)

C34_NeverPartial ==
    op.name = "export_transcriptions" =>
        \A i \in 1..Len(trace) : trace[i][2] \in {C34_Before, C34_Complete}

C34_FailureKeepsContent ==
    op.name = "export_transcriptions" /\ ~op.ret =>
        trace[Len(trace)][2] = C34_Before

C34_ExportAtomic == C34_NeverPartial /\ C34_FailureKeepsContent


C36_EnqueuedAfterChange ==
    /\ op.name = "receive_binary"
    /\ op.ret
    /\ Len(audio_chunks) = 1
    /\ processor.shut_down # {}

C36_FramesReachNewProcessor ==
    [][(C36_EnqueuedAfterChange /\ op'.name = "process_chunk_queue")
       => FeedTaskProcessor = processor.current]_vars

\* C37: while the first connection is open, every new partial text and every
\* final text the shared processor reports puts one message with that text on
\* the first connection's queue, also after a second connection was opened.
C37_Reported(o) ==
    \/ /\ o.name = "realtime_callback"
       /\ o.arg # callbacks.last_partial_text
    \/ o.name = "full_transcription_callback"

C37_FirstConnectionKeepsReceiving ==
    [][(C37_Reported(op') /\ recv_task = "running")
       => /\ Len(message_queue') = Len(message_queue) + 1
          /\ message_queue'[Len(message_queue')].content = op'.arg]_vars


\* C38: the first non-empty partial after a recording start is emitted: the
\* session calls its real-time callback for it, and the connection's
\* callbacks put its message on the queue.
C38_SessionEmitsFirstPartial ==
    [][(/\ op.name = "start_recording"
        /\ op'.name = "on_partial"
        /\ Truthy(op'.arg))
       => \E i \in 1..Len(trace') : trace'[i][1] = "realtime_transcription_callback"]_vars

C38_ConnectionEmitsFirstPartial ==
    [][(/\ op.name = "callbacks.on_recording_start"
        /\ op'.name = "callbacks.on_partial"
        /\ Truthy(op'.arg))
       => /\ Len(message_queue') = Len(message_queue) + 1
          /\ message_queue'[Len(message_queue')].type = "partial_transcription"
          /\ message_queue'[Len(message_queue')].content = op'.arg]_vars

C38_FirstPartialEmitted ==
    C38_SessionEmitsFirstPartial /\ C38_ConnectionEmitsFirstPartial


\* C39: once shutdown has returned (the flag is set and the recorder is
\* dropped), the monitor thread finalizes nothing: no result is appended to
\* the history, no final callback is called and no auto-save is run.
C39_NoFinalizationAfterShutdown ==
    [][(shutdown_performed /\ ~recorder)
       => /\ transcription_history' = transcription_history
          /\ \A i \in 1..Len(trace') :
                 trace'[i][1] \notin {"history.append", "full_transcription_callback",
                                      "export_transcriptions"}]_vars


\* C40: export_transcriptions returns True only when it has written the
\* filtered history to the path in the requested format, which is one of
\* json, csv and txt.
C40_TrueOnlyWhenWritten ==
    [][(op'.name = "export_transcriptions" /\ op'.ret)
       => /\ op'.arg.format \in {"json", "csv", "txt"}
          /\ trace' = << <<"write",
                           ExportFile(IF op'.arg.filter_final_only
                                      THEN SelectFinal(transcription_history)
                                      ELSE transcription_history,
                                      op'.arg.format,
                                      op'.arg.include_metadata)>> >>]_vars

====
